---------------------------- MODULE Spec2Model ----------------------------
(***************************************************************************)
(* A model of polygon's ReferenceClient                                    *)
(* (src/polygon/reference_apis/reference_api.py): how each endpoint method *)
(* turns its arguments into the path and the query mapping it hands to the *)
(* transport session, and how the pagination helpers follow next_url.      *)
(*                                                                         *)
(* Every method is an operator from (client, bound arguments, the response *)
(* the server gives) to an outcome                                         *)
(*     [client, reqs, ret, stdout]                                         *)
(* : the client after the call, the requests handed to session.request in  *)
(* order, what the call returns (or the exception it raises) and what it   *)
(* printed.  The actions apply these operators to the state.               *)
(***************************************************************************)
EXTENDS Integers, Sequences, FiniteSets, TLC

VARIABLES
    client,   \* the ReferenceClient: KEY, BASE, _async, session
    last,     \* the most recent call: op, args, kwargs, old, reqs, resps, ret, stdout,
              \* and closed (whether the session was closed when it was made)
    probe,    \* an earlier endpoint call an observer remembered: op, kwargs, reqs,
              \* and again (whether a call was made since)
    scope,    \* the with / async with statement the caller runs the client in: hook,
              \* state (out, in, left), as (what entry returned), exc (the exception
              \* the body left with) and raised (whether it went on past the exit)
    pages     \* a caller's walk through a paginated result: total (the pages the
              \* server holds), got (the pages received, in order), gets (the
              \* follow-up requests made), latest (the response to feed next), done

vars == <<client, last, probe, scope, pages>>

(***************************************************************************)
(* Bounds of the model.                                                    *)
(***************************************************************************)
\* At most this many optional keyword arguments per call (BuildSpec).
MaxKwargs == 2
\* Ticker symbols are at most this many characters long (BuildSpec).
MaxSymLen == 2
\* A paginated result has at most this many pages (PageSpec).
MaxPages == 4

(***************************************************************************)
(* Python values.  Each kind is a record with fields of its own, so values *)
(* of different kinds are unequal.  A str is a TLA+ string (PyStr), except *)
(* where the code changes its letter case: those arguments are PyChars, a  *)
(* tuple of one-character strings.                                         *)
(***************************************************************************)
PyNone == [none |-> TRUE]

PyStr(s) == [str |-> s]

PyChars(cs) == [chars |-> cs]

PyInt(n) == [int |-> n]

PyBool(b) == [bool |-> b]

PyDict(d) == [dict |-> d]

PyDate(y, m, d) == [year |-> y, month |-> m, day |-> d]

PyDateTime(y, m, d, hh, mm) ==
    [year |-> y, month |-> m, day |-> d, hour |-> hh, minute |-> mm]

Raise(exc) == [raise |-> exc]

IsRaise(v) == "raise" \in DOMAIN v

\* isinstance(v, datetime.date): datetime.datetime is a subclass of datetime.date
isinstance_date(v) == "year" \in DOMAIN v

\* isinstance(v, datetime.datetime)
isinstance_datetime(v) == "hour" \in DOMAIN v

\* isinstance(v, dict)
isinstance_dict(v) == "dict" \in DOMAIN v

\* Python truthiness of the argument kinds the model passes
truthy(v) ==
    CASE "bool" \in DOMAIN v -> v.bool
      [] "none" \in DOMAIN v -> FALSE
      [] "str" \in DOMAIN v -> v.str # ""
      [] "int" \in DOMAIN v -> v.int # 0
      [] OTHER -> TRUE

DigitChars == <<"0", "1", "2", "3", "4", "5", "6", "7", "8", "9">>

Digit(n) == DigitChars[n + 1]

\* %m, %d: two digits, zero padded
Pad2(n) == Digit((n \div 10) % 10) \o Digit(n % 10)

\* %Y: four digits (years 1000..9999)
Pad4(n) == Pad2(n \div 100) \o Pad2(n % 100)

\* date.strftime('%Y-%m-%d'): the time of day of a datetime is not formatted
strftime(v) == PyStr(Pad4(v.year) \o "-" \o Pad2(v.month) \o "-" \o Pad2(v.day))

LowerLetters ==
    <<"a", "b", "c", "d", "e", "f", "g", "h", "i", "j", "k", "l", "m",
      "n", "o", "p", "q", "r", "s", "t", "u", "v", "w", "x", "y", "z">>

UpperLetters ==
    <<"A", "B", "C", "D", "E", "F", "G", "H", "I", "J", "K", "L", "M",
      "N", "O", "P", "Q", "R", "S", "T", "U", "V", "W", "X", "Y", "Z">>

MapChar(from, to, c) ==
    IF \E i \in DOMAIN from : from[i] = c
    THEN to[CHOOSE i \in DOMAIN from : from[i] = c]
    ELSE c

\* a str left in the case it was given: what the path would carry without upper()
upper_omitted(v) == v

\* str.upper()
upper(v) == PyChars([i \in DOMAIN v.chars |-> MapChar(LowerLetters, UpperLetters, v.chars[i])])

\* str.lower()
lower(v) == PyChars([i \in DOMAIN v.chars |-> MapChar(UpperLetters, LowerLetters, v.chars[i])])

RECURSIVE Join(_)
Join(cs) == IF cs = <<>> THEN "" ELSE Head(cs) \o Join(Tail(cs))

\* f'{v}' of a str held as PyChars: the text to splice into the path
fstr(v) == Join(v.chars)

\* params=None: _get_response's default, no query mapping at all
NoParams == PyNone

(***************************************************************************)
(* The transport session and the server's responses.                       *)
(***************************************************************************)
\* A response body: JSON text (held as the mapping it decodes to) or not JSON
JsonBody(d) == [json_text |-> d]

NotJsonBody == [other_text |-> "<html>"]

Response(status, body) == [status_code |-> status, body |-> body]

\* a json() that gives None for a body it cannot decode
json_lenient(res) ==
    IF "json_text" \in DOMAIN res.body
    THEN PyDict(res.body.json_text)
    ELSE PyNone

\* Response.json()
json(res) ==
    IF "json_text" \in DOMAIN res.body
    THEN PyDict(res.body.json_text)
    ELSE Raise("JSONDecodeError")

\* d[key]
getitem(d, key) == IF key \in DOMAIN d.dict THEN d.dict[key] ELSE Raise("KeyError")

\* self.session.request('GET', url, params=params): the request as handed to
\* the session, with the session's headers, and the response it returns.  A
\* requests.Session serves requests after close() as before; an
\* httpx.AsyncClient that was closed raises RuntimeError instead of sending.
session_request(session, method, url, params, resp) ==
    [request  |-> [method |-> method, url |-> url, params |-> params,
                   headers |-> session.headers],
     response |-> IF session.closed /\ session.class = "httpx.AsyncClient"
                  THEN Raise("RuntimeError")
                  ELSE resp]

\* what a call did: the client after it, the requests it handed to the session and
\* the responses it got back, in order, what it returned or raised, what it printed
Outcome(c, reqs, ret) ==
    [client |-> c, reqs |-> reqs, resps |-> <<>>, ret |-> ret, stdout |-> <<>>]

\* the outcome of a method that handed the session one request and got _res: an
\* exception raised by session.request is no response, and goes on to the caller
Sent(c, _res, ret) ==
    [Outcome(c, <<_res.request>>, ret)
        EXCEPT !.resps = IF IsRaise(_res.response) THEN <<>> ELSE <<_res.response>>]

\* an __init__ that puts the bare key in the header
__init___bare_key(api_key, use_async) ==
    [KEY    |-> api_key,
     _async |-> use_async,
     BASE   |-> "https://api.polygon.io",
     session |-> [class   |-> IF use_async THEN "httpx.AsyncClient" ELSE "requests.Session",
                  headers |-> ("Authorization" :> api_key),
                  closed  |-> FALSE,
                  made_by |-> "__init__"]]

\* ReferenceClient.__init__
__init__(api_key, use_async) ==
    [KEY    |-> api_key,
     _async |-> use_async,
     BASE   |-> "https://api.polygon.io",
     session |-> [class   |-> IF use_async THEN "httpx.AsyncClient" ELSE "requests.Session",
                  headers |-> ("Authorization" :> ("Bearer " \o api_key)),
                  closed  |-> FALSE,
                  made_by |-> "__init__"]]

\* self, as a method returns it
PySelf == [self |-> TRUE]

\* self.session.close() / await self.session.aclose()
session_close(session) == [session EXCEPT !.closed = TRUE]

\* an __enter__ that returns the client whatever its mode
__enter___any_mode(c) == Outcome(c, <<>>, PySelf)

\* ReferenceClient.__enter__
__enter__(c) == Outcome(c, <<>>, IF ~c._async THEN PySelf ELSE PyNone)

\* ReferenceClient.__exit__: returns None, so an exception of the body is not held back
__exit__(c, exc_type) ==
    Outcome(IF ~c._async THEN [c EXCEPT !.session = session_close(c.session)] ELSE c,
            <<>>, PyNone)

\* ReferenceClient.__aenter__
__aenter__(c) == Outcome(c, <<>>, IF c._async THEN PySelf ELSE PyNone)

\* an __aexit__ that leaves the session as it is
__aexit___nothing(c, exc_type) == Outcome(c, <<>>, PyNone)

\* ReferenceClient.__aexit__
__aexit__(c, exc_type) ==
    Outcome(IF c._async THEN [c EXCEPT !.session = session_close(c.session)] ELSE c,
            <<>>, PyNone)

\* a close that leaves the session as it is
close_nothing(c) == Outcome(c, <<>>, PyNone)

\* ReferenceClient.close
close(c) ==
    Outcome(IF ~c._async THEN [c EXCEPT !.session = session_close(c.session)] ELSE c,
            <<>>, PyNone)

\* an async_close that leaves the client with a new session in place of the closed one
async_close_renewing(c) ==
    Outcome(IF c._async
            THEN [c EXCEPT !.session = [session_close(c.session) EXCEPT !.made_by = "async_close"]]
            ELSE c,
            <<>>, PyNone)

\* ReferenceClient.async_close
async_close(c) ==
    Outcome(IF c._async THEN [c EXCEPT !.session = session_close(c.session)] ELSE c,
            <<>>, PyNone)

\* a _get_response that keeps the URL it built as the client's base
_get_response_rebasing(c, path, params, raw_response, resp) ==
    LET _res == session_request(c.session, "GET", c.BASE \o path, params, resp)
    IN  Sent([c EXCEPT !.BASE = c.BASE \o path], _res,
             IF IsRaise(_res.response) \/ truthy(raw_response)
             THEN _res.response
             ELSE json(_res.response))

\* a _get_response that leaves the base URL out
_get_response_unbased(c, path, params, raw_response, resp) ==
    LET _res == session_request(c.session, "GET", path, params, resp)
    IN  Sent(c, _res,
             IF IsRaise(_res.response) \/ truthy(raw_response)
             THEN _res.response
             ELSE json(_res.response))

\* the defaults of _get_response and of _get_async_response
_get_response_defaults == "params" :> PyNone @@ "raw_response" :> PyBool(TRUE)

_get_async_response_defaults == "params" :> PyNone @@ "raw_response" :> PyBool(TRUE)

\* a _get_response that raises for a 4xx / 5xx status
_get_response_raise_for_status(c, path, params, raw_response, resp) ==
    LET _res == session_request(c.session, "GET", c.BASE \o path, params, resp)
    IN  Sent(c, _res,
             IF IsRaise(_res.response) THEN _res.response
             ELSE IF _res.response.status_code >= 400 THEN Raise("HTTPError")
             ELSE IF truthy(raw_response) THEN _res.response
             ELSE json(_res.response))

\* ReferenceClient._get_response
_get_response(c, path, params, raw_response, resp) ==
    LET _res == session_request(c.session, "GET", c.BASE \o path, params, resp)
    IN  Sent(c, _res,
             IF IsRaise(_res.response) \/ truthy(raw_response)
             THEN _res.response
             ELSE json(_res.response))

\* a _get_async_response that asks once more when the first attempt failed
_get_async_response_retrying(c, path, params, raw_response, resp) ==
    LET _res == session_request(c.session, "GET", c.BASE \o path, params, resp)
        failed == IsRaise(_res.response) \/ _res.response.status_code >= 500
        out == Sent(c, _res,
                    IF IsRaise(_res.response) \/ truthy(raw_response)
                    THEN _res.response
                    ELSE json(_res.response))
    IN  IF failed THEN [out EXCEPT !.reqs = <<_res.request, _res.request>>] ELSE out

\* ReferenceClient._get_async_response
_get_async_response(c, path, params, raw_response, resp) ==
    LET _res == session_request(c.session, "GET", c.BASE \o path, params, resp)
    IN  Sent(c, _res,
             IF IsRaise(_res.response) \/ truthy(raw_response)
             THEN _res.response
             ELSE json(_res.response))

\* a get_next_page_by_url that treats the URL as a path under the base URL
get_next_page_by_url_as_path(c, url, raw_response, resp) ==
    LET _res == session_request(c.session, "GET", c.BASE \o url.str, NoParams, resp)
    IN  Sent(c, _res,
             IF IsRaise(_res.response) \/ truthy(raw_response)
             THEN _res.response
             ELSE json(_res.response))

\* ReferenceClient.get_next_page_by_url
get_next_page_by_url(c, url, raw_response, resp) ==
    LET _res == session_request(c.session, "GET", url.str, NoParams, resp)
    IN  Sent(c, _res,
             IF IsRaise(_res.response) \/ truthy(raw_response)
             THEN _res.response
             ELSE json(_res.response))

\* an async_get_next_page_by_url that turns the call down once the session was closed
async_get_next_page_by_url_refusing(c, url, raw_response, resp) ==
    IF c.session.closed
    THEN Outcome(c, <<>>, Raise("RuntimeError"))
    ELSE LET _res == session_request(c.session, "GET", url.str, NoParams, resp)
         IN  Sent(c, _res,
                  IF IsRaise(_res.response) \/ truthy(raw_response)
                  THEN _res.response
                  ELSE json(_res.response))

\* ReferenceClient.async_get_next_page_by_url
async_get_next_page_by_url(c, url, raw_response, resp) ==
    LET _res == session_request(c.session, "GET", url.str, NoParams, resp)
    IN  Sent(c, _res,
             IF IsRaise(_res.response) \/ truthy(raw_response)
             THEN _res.response
             ELSE json(_res.response))

\* a tail that decodes whatever the flag
return_response_decoded(_res, raw_response) ==
    IF IsRaise(_res.ret)
    THEN _res
    ELSE [_res EXCEPT !.ret = json(_res.ret)]

\* the tail of every endpoint method:
\*     if raw_response: return _res
\*     return _res.json()
return_response(_res, raw_response) ==
    IF IsRaise(_res.ret) \/ truthy(raw_response)
    THEN _res
    ELSE [_res EXCEPT !.ret = json(_res.ret)]

(***************************************************************************)
(* The endpoint methods.  X_defaults is the default of every parameter of  *)
(* X that has one; X(c, a, resp) is the call of X on client c with bound   *)
(* arguments a, the server answering resp.                                 *)
(***************************************************************************)
get_tickers_defaults ==
    "symbol" :> PyStr("")
    @@ "ticker_lt" :> PyNone
    @@ "ticker_lte" :> PyNone
    @@ "ticker_gt" :> PyNone
    @@ "ticker_gte" :> PyNone
    @@ "symbol_type" :> PyStr("")
    @@ "market" :> PyStr("")
    @@ "exchange" :> PyStr("")
    @@ "cusip" :> PyNone
    @@ "cik" :> PyStr("")
    @@ "date" :> PyNone
    @@ "search" :> PyNone
    @@ "active" :> PyBool(TRUE)
    @@ "sort" :> PyStr("ticker")
    @@ "order" :> PyStr("asc")
    @@ "limit" :> PyInt(100)
    @@ "raw_response" :> PyBool(FALSE)

get_tickers(c, a, resp) ==
    LET date == IF isinstance_date(a["date"]) \/ isinstance_datetime(a["date"]) THEN strftime(a["date"]) ELSE a["date"]
        _path == "/v3/reference/tickers"
        _data == ("ticker" :> a["symbol"]
                    @@ "ticker.lt" :> a["ticker_lt"]
                    @@ "ticker.lte" :> a["ticker_lte"]
                    @@ "ticker.gt" :> a["ticker_gt"]
                    @@ "ticker.gte" :> a["ticker_gte"]
                    @@ "type" :> a["symbol_type"]
                    @@ "market" :> a["market"]
                    @@ "exchange" :> a["exchange"]
                    @@ "cusip" :> a["cusip"]
                    @@ "cik" :> a["cik"]
                    @@ "date" :> date
                    @@ "search" :> a["search"]
                    @@ "active" :> a["active"]
                    @@ "sort" :> a["sort"]
                    @@ "order" :> a["order"]
                    @@ "limit" :> a["limit"])
        _res == _get_response(c, _path, _data, PyBool(TRUE), resp)
    IN  return_response(_res, a["raw_response"])

get_ticker_types_v3_defaults ==
    "asset_class" :> PyNone
    @@ "locale" :> PyNone
    @@ "raw_response" :> PyBool(FALSE)

get_ticker_types_v3(c, a, resp) ==
    LET _path == "/v3/reference/tickers/types"
        _data == ("asset_class" :> a["asset_class"]
                    @@ "locale" :> a["locale"])
        _res == _get_response(c, _path, _data, PyBool(TRUE), resp)
    IN  return_response(_res, a["raw_response"])

get_ticker_details_defaults ==
    "raw_response" :> PyBool(FALSE)

get_ticker_details(c, a, resp) ==
    LET _path == "/v1/meta/symbols/" \o fstr(upper(a["symbol"])) \o "/company"
        _res == _get_response(c, _path, NoParams, PyBool(TRUE), resp)
    IN  return_response(_res, a["raw_response"])

get_ticker_details_vx_defaults ==
    "date" :> PyNone
    @@ "raw_response" :> PyBool(FALSE)

get_ticker_details_vx(c, a, resp) ==
    LET date == IF isinstance_date(a["date"]) \/ isinstance_datetime(a["date"]) THEN strftime(a["date"]) ELSE a["date"]
        _path == "/vX/reference/tickers/" \o fstr(upper(a["symbol"]))
        _data == ("date" :> date)
        _res == _get_response(c, _path, _data, PyBool(TRUE), resp)
    IN  return_response(_res, a["raw_response"])

get_option_contracts_defaults ==
    "underlying_ticker" :> PyNone
    @@ "ticker" :> PyNone
    @@ "contract_type" :> PyNone
    @@ "expiration_date" :> PyNone
    @@ "expiration_date_lt" :> PyNone
    @@ "expiration_date_lte" :> PyNone
    @@ "expiration_date_gt" :> PyNone
    @@ "expiration_date_gte" :> PyNone
    @@ "order" :> PyStr("asc")
    @@ "sort" :> PyNone
    @@ "limit" :> PyInt(100)
    @@ "raw_response" :> PyBool(FALSE)

get_option_contracts(c, a, resp) ==
    LET expiration_date == IF isinstance_date(a["expiration_date"]) \/ isinstance_datetime(a["expiration_date"]) THEN strftime(a["expiration_date"]) ELSE a["expiration_date"]
        expiration_date_lt == IF isinstance_date(a["expiration_date_lt"]) \/ isinstance_datetime(a["expiration_date_lt"]) THEN strftime(a["expiration_date_lt"]) ELSE a["expiration_date_lt"]
        expiration_date_lte == IF isinstance_date(a["expiration_date_lte"]) \/ isinstance_datetime(a["expiration_date_lte"]) THEN strftime(a["expiration_date_lte"]) ELSE a["expiration_date_lte"]
        expiration_date_gt == IF isinstance_date(a["expiration_date_gt"]) \/ isinstance_datetime(a["expiration_date_gt"]) THEN strftime(a["expiration_date_gt"]) ELSE a["expiration_date_gt"]
        expiration_date_gte == IF isinstance_date(a["expiration_date_gte"]) \/ isinstance_datetime(a["expiration_date_gte"]) THEN strftime(a["expiration_date_gte"]) ELSE a["expiration_date_gte"]
        _path == "/vX/reference/options/contracts"
        _data == ("ticker" :> a["ticker"]
                    @@ "underlying_ticker" :> a["underlying_ticker"]
                    @@ "contract_type" :> a["contract_type"]
                    @@ "expiration_date" :> expiration_date
                    @@ "expiration_date_lt" :> expiration_date
                    @@ "expiration_date_lte" :> expiration_date_lte
                    @@ "expiration_date_gt" :> expiration_date_gt
                    @@ "expiration_date_gte" :> expiration_date_gte
                    @@ "order" :> a["order"]
                    @@ "sort" :> a["sort"]
                    @@ "limit" :> a["limit"])
        _res == _get_response(c, _path, _data, PyBool(TRUE), resp)
    IN  return_response(_res, a["raw_response"])

get_ticker_news_defaults ==
    "symbol" :> PyNone
    @@ "limit" :> PyInt(100)
    @@ "order" :> PyStr("desc")
    @@ "sort" :> PyStr("published_utc")
    @@ "ticker_lt" :> PyNone
    @@ "ticker_lte" :> PyNone
    @@ "ticker_gt" :> PyNone
    @@ "ticker_gte" :> PyNone
    @@ "published_utc" :> PyNone
    @@ "published_utc_lt" :> PyNone
    @@ "published_utc_lte" :> PyNone
    @@ "published_utc_gt" :> PyNone
    @@ "published_utc_gte" :> PyNone
    @@ "raw_response" :> PyBool(FALSE)

get_ticker_news(c, a, resp) ==
    LET published_utc == IF isinstance_date(a["published_utc"]) \/ isinstance_datetime(a["published_utc"]) THEN strftime(a["published_utc"]) ELSE a["published_utc"]
        published_utc_lt == IF isinstance_date(a["published_utc_lt"]) \/ isinstance_datetime(a["published_utc_lt"]) THEN strftime(a["published_utc_lt"]) ELSE a["published_utc_lt"]
        published_utc_lte == IF isinstance_date(a["published_utc_lte"]) \/ isinstance_datetime(a["published_utc_lte"]) THEN strftime(a["published_utc_lte"]) ELSE a["published_utc_lte"]
        published_utc_gt == IF isinstance_date(a["published_utc_gt"]) \/ isinstance_datetime(a["published_utc_gt"]) THEN strftime(a["published_utc_gt"]) ELSE a["published_utc_gt"]
        published_utc_gte == IF isinstance_date(a["published_utc_gte"]) \/ isinstance_datetime(a["published_utc_gte"]) THEN strftime(a["published_utc_gte"]) ELSE a["published_utc_gte"]
        _path == "/v2/reference/news"
        _data == ("limit" :> a["limit"]
                    @@ "order" :> a["order"]
                    @@ "sort" :> a["sort"]
                    @@ "ticker" :> a["symbol"]
                    @@ "ticker.lt" :> a["ticker_lt"]
                    @@ "ticker.lte" :> a["ticker_lte"]
                    @@ "ticker.gt" :> a["ticker_gt"]
                    @@ "ticker.gte" :> a["ticker_gte"]
                    @@ "published_utc" :> published_utc
                    @@ "published_utc.lt" :> published_utc_lt
                    @@ "published_utc.lte" :> published_utc_lte
                    @@ "published_utc.gt" :> published_utc_gt
                    @@ "published_utc.gte" :> published_utc_gte)
        _res == _get_response(c, _path, _data, PyBool(TRUE), resp)
    IN  return_response(_res, a["raw_response"])

get_stock_dividends_defaults ==
    "raw_response" :> PyBool(FALSE)

get_stock_dividends(c, a, resp) ==
    LET _path == "/v2/reference/dividends/" \o fstr(upper(a["symbol"]))
        _res == _get_response(c, _path, NoParams, PyBool(TRUE), resp)
    IN  return_response(_res, a["raw_response"])

get_stock_financials_defaults ==
    "limit" :> PyInt(100)
    @@ "report_type" :> PyNone
    @@ "sort" :> PyNone
    @@ "raw_response" :> PyBool(FALSE)

get_stock_financials(c, a, resp) ==
    LET _path == "/v2/reference/financials/" \o fstr(upper(a["symbol"]))
        _data == ("limit" :> a["limit"]
                    @@ "type" :> a["report_type"]
                    @@ "sort" :> a["sort"])
        _res == _get_response(c, _path, _data, PyBool(TRUE), resp)
    IN  return_response(_res, a["raw_response"])

get_stock_financials_vx_defaults ==
    "ticker" :> PyNone
    @@ "cik" :> PyNone
    @@ "company_name" :> PyNone
    @@ "company_name_search" :> PyNone
    @@ "sic" :> PyNone
    @@ "filing_date" :> PyNone
    @@ "filing_date_lt" :> PyNone
    @@ "filing_date_lte" :> PyNone
    @@ "filing_date_gt" :> PyNone
    @@ "filing_date_gte" :> PyNone
    @@ "period_of_report_date" :> PyNone
    @@ "period_of_report_date_lt" :> PyNone
    @@ "period_of_report_date_lte" :> PyNone
    @@ "period_of_report_date_gt" :> PyNone
    @@ "period_of_report_date_gte" :> PyNone
    @@ "time_frame" :> PyNone
    @@ "include_sources" :> PyBool(FALSE)
    @@ "order" :> PyStr("asc")
    @@ "limit" :> PyInt(50)
    @@ "sort" :> PyStr("filing_date")
    @@ "raw_response" :> PyBool(FALSE)

\* a get_stock_financials_vx that passes include_sources on as the boolean given
get_stock_financials_vx_flag_as_given(c, a, resp) ==
    LET _path == "/vX/reference/financials"
        _data == ("ticker" :> a["ticker"]
                    @@ "cik" :> a["cik"]
                    @@ "company_name" :> a["company_name"]
                    @@ "company_name_search" :> a["company_name_search"]
                    @@ "sic" :> a["sic"]
                    @@ "filing_date" :> a["filing_date"]
                    @@ "filing_date_lt" :> a["filing_date_lt"]
                    @@ "filing_date_lte" :> a["filing_date_lte"]
                    @@ "filing_date_gt" :> a["filing_date_gt"]
                    @@ "filing_date_gte" :> a["filing_date_gte"]
                    @@ "period_of_report_date" :> a["period_of_report_date"]
                    @@ "period_of_report_date_lt" :> a["period_of_report_date_lt"]
                    @@ "period_of_report_date_lte" :> a["period_of_report_date_lte"]
                    @@ "period_of_report_date_gt" :> a["period_of_report_date_gt"]
                    @@ "period_of_report_date_gte" :> a["period_of_report_date_gte"]
                    @@ "timeframe" :> a["time_frame"]
                    @@ "order" :> a["order"]
                    @@ "include_sources" :> a["include_sources"]
                    @@ "limit" :> a["limit"]
                    @@ "sort" :> a["sort"])
        _res == _get_response(c, _path, _data, PyBool(TRUE), resp)
    IN  return_response(_res, a["raw_response"])

get_stock_financials_vx(c, a, resp) ==
    LET _path == "/vX/reference/financials"
        _data == ("ticker" :> a["ticker"]
                    @@ "cik" :> a["cik"]
                    @@ "company_name" :> a["company_name"]
                    @@ "company_name_search" :> a["company_name_search"]
                    @@ "sic" :> a["sic"]
                    @@ "filing_date" :> a["filing_date"]
                    @@ "filing_date_lt" :> a["filing_date_lt"]
                    @@ "filing_date_lte" :> a["filing_date_lte"]
                    @@ "filing_date_gt" :> a["filing_date_gt"]
                    @@ "filing_date_gte" :> a["filing_date_gte"]
                    @@ "period_of_report_date" :> a["period_of_report_date"]
                    @@ "period_of_report_date_lt" :> a["period_of_report_date_lt"]
                    @@ "period_of_report_date_lte" :> a["period_of_report_date_lte"]
                    @@ "period_of_report_date_gt" :> a["period_of_report_date_gt"]
                    @@ "period_of_report_date_gte" :> a["period_of_report_date_gte"]
                    @@ "timeframe" :> a["time_frame"]
                    @@ "order" :> a["order"]
                    @@ "include_sources" :> (IF truthy(a["include_sources"]) THEN PyStr("true") ELSE PyStr("false"))
                    @@ "limit" :> a["limit"]
                    @@ "sort" :> a["sort"])
        _res == _get_response(c, _path, _data, PyBool(TRUE), resp)
    IN  return_response(_res, a["raw_response"])

get_stock_splits_defaults ==
    "raw_response" :> PyBool(FALSE)

get_stock_splits(c, a, resp) ==
    LET _path == "/v2/reference/splits/" \o fstr(upper(a["symbol"]))
        _res == _get_response(c, _path, NoParams, PyBool(TRUE), resp)
    IN  return_response(_res, a["raw_response"])

get_market_holidays_defaults ==
    "raw_response" :> PyBool(FALSE)

get_market_holidays(c, a, resp) ==
    LET _path == "/v1/marketstatus/upcoming"
        _res == _get_response(c, _path, NoParams, PyBool(TRUE), resp)
    IN  return_response(_res, a["raw_response"])

get_market_status_defaults ==
    "raw_response" :> PyBool(FALSE)

\* a market status that asks for the upcoming holidays, as get_market_holidays does
get_market_status_upcoming(c, a, resp) ==
    LET _path == "/v1/marketstatus/upcoming"
        _res == _get_response(c, _path, NoParams, PyBool(TRUE), resp)
    IN  return_response(_res, a["raw_response"])

get_market_status(c, a, resp) ==
    LET _path == "/v1/marketstatus/now"
        _res == _get_response(c, _path, NoParams, PyBool(TRUE), resp)
    IN  return_response(_res, a["raw_response"])

get_condition_mappings_defaults ==
    "tick_type" :> PyChars(<<"t", "r", "a", "d", "e", "s">>)
    @@ "raw_response" :> PyBool(FALSE)

get_condition_mappings(c, a, resp) ==
    LET _path == "/v1/meta/conditions/" \o fstr(lower(a["tick_type"]))
        _res == _get_response(c, _path, NoParams, PyBool(TRUE), resp)
    IN  return_response(_res, a["raw_response"])

get_conditions_defaults ==
    "asset_class" :> PyNone
    @@ "data_type" :> PyNone
    @@ "id" :> PyNone
    @@ "sip" :> PyNone
    @@ "order" :> PyNone
    @@ "limit" :> PyInt(50)
    @@ "sort" :> PyStr("name")
    @@ "raw_response" :> PyBool(FALSE)

get_conditions(c, a, resp) ==
    LET _path == "/vX/reference/conditions"
        _data == ("asset_class" :> a["asset_class"]
                    @@ "data_type" :> a["data_type"]
                    @@ "id" :> a["id"]
                    @@ "sip" :> a["sip"]
                    @@ "order" :> a["order"]
                    @@ "limit" :> a["limit"]
                    @@ "sort" :> a["sort"])
        _res == _get_response(c, _path, _data, PyBool(TRUE), resp)
    IN  return_response(_res, a["raw_response"])

get_exchanges_defaults ==
    "asset_class" :> PyNone
    @@ "locale" :> PyNone
    @@ "raw_response" :> PyBool(FALSE)

get_exchanges(c, a, resp) ==
    LET _path == "/v3/reference/exchanges"
        _data == ("asset_class" :> a["asset_class"]
                    @@ "locale" :> a["locale"])
        _res == _get_response(c, _path, _data, PyBool(TRUE), resp)
    IN  return_response(_res, a["raw_response"])

get_locales_defaults ==
    "raw_response" :> PyBool(FALSE)

get_locales(c, a, resp) ==
    LET _path == "/v2/reference/locales"
        _res == _get_response(c, _path, NoParams, PyBool(TRUE), resp)
    IN  return_response(_res, a["raw_response"])

get_markets_defaults ==
    "raw_response" :> PyBool(FALSE)

get_markets(c, a, resp) ==
    LET _path == "/v2/reference/markets"
        _res == _get_response(c, _path, NoParams, PyBool(TRUE), resp)
    IN  return_response(_res, a["raw_response"])

async_get_tickers_defaults ==
    "symbol" :> PyStr("")
    @@ "ticker_lt" :> PyNone
    @@ "ticker_lte" :> PyNone
    @@ "ticker_gt" :> PyNone
    @@ "ticker_gte" :> PyNone
    @@ "symbol_type" :> PyStr("")
    @@ "market" :> PyStr("")
    @@ "exchange" :> PyStr("")
    @@ "cusip" :> PyNone
    @@ "cik" :> PyStr("")
    @@ "date" :> PyNone
    @@ "search" :> PyNone
    @@ "active" :> PyBool(TRUE)
    @@ "sort" :> PyStr("ticker")
    @@ "order" :> PyStr("asc")
    @@ "limit" :> PyInt(100)
    @@ "raw_response" :> PyBool(FALSE)

async_get_tickers(c, a, resp) ==
    LET date == IF isinstance_date(a["date"]) \/ isinstance_datetime(a["date"]) THEN strftime(a["date"]) ELSE a["date"]
        _path == "/v3/reference/tickers"
        _data == ("ticker" :> a["symbol"]
                    @@ "ticker.lt" :> a["ticker_lt"]
                    @@ "ticker.lte" :> a["ticker_lte"]
                    @@ "ticker.gt" :> a["ticker_gt"]
                    @@ "ticker.gte" :> a["ticker_gte"]
                    @@ "type" :> a["symbol_type"]
                    @@ "market" :> a["market"]
                    @@ "exchange" :> a["exchange"]
                    @@ "cusip" :> a["cusip"]
                    @@ "cik" :> a["cik"]
                    @@ "date" :> date
                    @@ "search" :> a["search"]
                    @@ "active" :> a["active"]
                    @@ "sort" :> a["sort"]
                    @@ "order" :> a["order"]
                    @@ "limit" :> a["limit"])
        _res == _get_async_response(c, _path, _data, PyBool(TRUE), resp)
    IN  return_response(_res, a["raw_response"])

async_get_ticker_types_v3_defaults ==
    "asset_class" :> PyNone
    @@ "locale" :> PyNone
    @@ "raw_response" :> PyBool(FALSE)

async_get_ticker_types_v3(c, a, resp) ==
    LET _path == "/v3/reference/tickers/types"
        _data == ("asset_class" :> a["asset_class"]
                    @@ "locale" :> a["locale"])
        _res == _get_async_response(c, _path, _data, PyBool(TRUE), resp)
    IN  return_response(_res, a["raw_response"])

async_get_ticker_details_defaults ==
    "raw_response" :> PyBool(FALSE)

async_get_ticker_details(c, a, resp) ==
    LET _path == "/v1/meta/symbols/" \o fstr(upper(a["symbol"])) \o "/company"
        _res == _get_async_response(c, _path, NoParams, PyBool(TRUE), resp)
    IN  return_response(_res, a["raw_response"])

async_get_ticker_details_vx_defaults ==
    "date" :> PyNone
    @@ "raw_response" :> PyBool(FALSE)

async_get_ticker_details_vx(c, a, resp) ==
    LET date == IF isinstance_date(a["date"]) \/ isinstance_datetime(a["date"]) THEN strftime(a["date"]) ELSE a["date"]
        _path == "/vX/reference/tickers/" \o fstr(upper(a["symbol"]))
        _data == ("date" :> date)
        _res == _get_async_response(c, _path, _data, PyBool(TRUE), resp)
    IN  return_response(_res, a["raw_response"])

async_get_option_contracts_defaults ==
    "underlying_ticker" :> PyNone
    @@ "ticker" :> PyNone
    @@ "contract_type" :> PyNone
    @@ "expiration_date" :> PyNone
    @@ "expiration_date_lt" :> PyNone
    @@ "expiration_date_lte" :> PyNone
    @@ "expiration_date_gt" :> PyNone
    @@ "expiration_date_gte" :> PyNone
    @@ "order" :> PyStr("asc")
    @@ "sort" :> PyNone
    @@ "limit" :> PyInt(50)
    @@ "raw_response" :> PyBool(FALSE)

async_get_option_contracts(c, a, resp) ==
    LET expiration_date == IF isinstance_date(a["expiration_date"]) \/ isinstance_datetime(a["expiration_date"]) THEN strftime(a["expiration_date"]) ELSE a["expiration_date"]
        expiration_date_lt == IF isinstance_date(a["expiration_date_lt"]) \/ isinstance_datetime(a["expiration_date_lt"]) THEN strftime(a["expiration_date_lt"]) ELSE a["expiration_date_lt"]
        expiration_date_lte == IF isinstance_date(a["expiration_date_lte"]) \/ isinstance_datetime(a["expiration_date_lte"]) THEN strftime(a["expiration_date_lte"]) ELSE a["expiration_date_lte"]
        expiration_date_gt == IF isinstance_date(a["expiration_date_gt"]) \/ isinstance_datetime(a["expiration_date_gt"]) THEN strftime(a["expiration_date_gt"]) ELSE a["expiration_date_gt"]
        expiration_date_gte == IF isinstance_date(a["expiration_date_gte"]) \/ isinstance_datetime(a["expiration_date_gte"]) THEN strftime(a["expiration_date_gte"]) ELSE a["expiration_date_gte"]
        _path == "/vX/reference/options/contracts"
        _data == ("ticker" :> a["ticker"]
                    @@ "underlying_ticker" :> a["underlying_ticker"]
                    @@ "contract_type" :> a["contract_type"]
                    @@ "expiration_date" :> expiration_date
                    @@ "expiration_date_lt" :> expiration_date
                    @@ "expiration_date_lte" :> expiration_date_lte
                    @@ "expiration_date_gt" :> expiration_date_gt
                    @@ "expiration_date_gte" :> expiration_date_gte
                    @@ "order" :> a["order"]
                    @@ "sort" :> a["sort"]
                    @@ "limit" :> a["limit"])
        _res == _get_async_response(c, _path, _data, PyBool(TRUE), resp)
    IN  return_response(_res, a["raw_response"])

async_get_ticker_news_defaults ==
    "symbol" :> PyNone
    @@ "limit" :> PyInt(100)
    @@ "order" :> PyStr("desc")
    @@ "sort" :> PyStr("published_utc")
    @@ "ticker_lt" :> PyNone
    @@ "ticker_lte" :> PyNone
    @@ "ticker_gt" :> PyNone
    @@ "ticker_gte" :> PyNone
    @@ "published_utc" :> PyNone
    @@ "published_utc_lt" :> PyNone
    @@ "published_utc_lte" :> PyNone
    @@ "published_utc_gt" :> PyNone
    @@ "published_utc_gte" :> PyNone
    @@ "raw_response" :> PyBool(FALSE)

async_get_ticker_news(c, a, resp) ==
    LET published_utc == IF isinstance_date(a["published_utc"]) \/ isinstance_datetime(a["published_utc"]) THEN strftime(a["published_utc"]) ELSE a["published_utc"]
        published_utc_lt == IF isinstance_date(a["published_utc_lt"]) \/ isinstance_datetime(a["published_utc_lt"]) THEN strftime(a["published_utc_lt"]) ELSE a["published_utc_lt"]
        published_utc_lte == IF isinstance_date(a["published_utc_lte"]) \/ isinstance_datetime(a["published_utc_lte"]) THEN strftime(a["published_utc_lte"]) ELSE a["published_utc_lte"]
        published_utc_gt == IF isinstance_date(a["published_utc_gt"]) \/ isinstance_datetime(a["published_utc_gt"]) THEN strftime(a["published_utc_gt"]) ELSE a["published_utc_gt"]
        published_utc_gte == IF isinstance_date(a["published_utc_gte"]) \/ isinstance_datetime(a["published_utc_gte"]) THEN strftime(a["published_utc_gte"]) ELSE a["published_utc_gte"]
        _path == "/v2/reference/news"
        _data == ("limit" :> a["limit"]
                    @@ "order" :> a["order"]
                    @@ "sort" :> a["sort"]
                    @@ "ticker" :> a["symbol"]
                    @@ "ticker.lt" :> a["ticker_lt"]
                    @@ "ticker.lte" :> a["ticker_lte"]
                    @@ "ticker.gt" :> a["ticker_gt"]
                    @@ "ticker.gte" :> a["ticker_gte"]
                    @@ "published_utc" :> published_utc
                    @@ "published_utc.lt" :> published_utc_lt
                    @@ "published_utc.lte" :> published_utc_lte
                    @@ "published_utc.gt" :> published_utc_gt
                    @@ "published_utc.gte" :> published_utc_gte)
        _res == _get_async_response(c, _path, _data, PyBool(TRUE), resp)
    IN  return_response(_res, a["raw_response"])

async_get_stock_dividends_defaults ==
    "raw_response" :> PyBool(FALSE)

async_get_stock_dividends(c, a, resp) ==
    LET _path == "/v2/reference/dividends/" \o fstr(upper(a["symbol"]))
        _res == _get_async_response(c, _path, NoParams, PyBool(TRUE), resp)
    IN  return_response(_res, a["raw_response"])

async_get_stock_financials_defaults ==
    "limit" :> PyInt(100)
    @@ "report_type" :> PyNone
    @@ "sort" :> PyNone
    @@ "raw_response" :> PyBool(FALSE)

async_get_stock_financials(c, a, resp) ==
    LET _path == "/v2/reference/financials/" \o fstr(upper(a["symbol"]))
        _data == ("limit" :> a["limit"]
                    @@ "type" :> a["report_type"]
                    @@ "sort" :> a["sort"])
        _res == _get_async_response(c, _path, _data, PyBool(TRUE), resp)
    IN  return_response(_res, a["raw_response"])

async_get_stock_financials_vx_defaults ==
    "ticker" :> PyNone
    @@ "cik" :> PyNone
    @@ "company_name" :> PyNone
    @@ "company_name_search" :> PyNone
    @@ "sic" :> PyNone
    @@ "filing_date" :> PyNone
    @@ "filing_date_lt" :> PyNone
    @@ "filing_date_lte" :> PyNone
    @@ "filing_date_gt" :> PyNone
    @@ "filing_date_gte" :> PyNone
    @@ "period_of_report_date" :> PyNone
    @@ "period_of_report_date_lt" :> PyNone
    @@ "period_of_report_date_lte" :> PyNone
    @@ "period_of_report_date_gt" :> PyNone
    @@ "period_of_report_date_gte" :> PyNone
    @@ "time_frame" :> PyNone
    @@ "include_sources" :> PyBool(FALSE)
    @@ "order" :> PyStr("asc")
    @@ "limit" :> PyInt(50)
    @@ "sort" :> PyStr("filing_date")
    @@ "raw_response" :> PyBool(FALSE)

async_get_stock_financials_vx(c, a, resp) ==
    LET _path == "/vX/reference/financials"
        _data == ("ticker" :> a["ticker"]
                    @@ "cik" :> a["cik"]
                    @@ "company_name" :> a["company_name"]
                    @@ "company_name_search" :> a["company_name_search"]
                    @@ "sic" :> a["sic"]
                    @@ "filing_date" :> a["filing_date"]
                    @@ "filing_date_lt" :> a["filing_date_lt"]
                    @@ "filing_date_lte" :> a["filing_date_lte"]
                    @@ "filing_date_gt" :> a["filing_date_gt"]
                    @@ "filing_date_gte" :> a["filing_date_gte"]
                    @@ "period_of_report_date" :> a["period_of_report_date"]
                    @@ "period_of_report_date_lt" :> a["period_of_report_date_lt"]
                    @@ "period_of_report_date_lte" :> a["period_of_report_date_lte"]
                    @@ "period_of_report_date_gt" :> a["period_of_report_date_gt"]
                    @@ "period_of_report_date_gte" :> a["period_of_report_date_gte"]
                    @@ "timeframe" :> a["time_frame"]
                    @@ "order" :> a["order"]
                    @@ "include_sources" :> (IF truthy(a["include_sources"]) THEN PyStr("true") ELSE PyStr("false"))
                    @@ "limit" :> a["limit"]
                    @@ "sort" :> a["sort"])
        _res == _get_async_response(c, _path, _data, PyBool(TRUE), resp)
    IN  return_response(_res, a["raw_response"])

async_get_stock_splits_defaults ==
    "raw_response" :> PyBool(FALSE)

async_get_stock_splits(c, a, resp) ==
    LET _path == "/v2/reference/splits/" \o fstr(upper(a["symbol"]))
        _res == _get_async_response(c, _path, NoParams, PyBool(TRUE), resp)
    IN  return_response(_res, a["raw_response"])

async_get_market_holidays_defaults ==
    "raw_response" :> PyBool(FALSE)

async_get_market_holidays(c, a, resp) ==
    LET _path == "/v1/marketstatus/upcoming"
        _res == _get_async_response(c, _path, NoParams, PyBool(TRUE), resp)
    IN  return_response(_res, a["raw_response"])

async_get_market_status_defaults ==
    "raw_response" :> PyBool(FALSE)

async_get_market_status(c, a, resp) ==
    LET _path == "/v1/marketstatus/now"
        _res == _get_async_response(c, _path, NoParams, PyBool(TRUE), resp)
    IN  return_response(_res, a["raw_response"])

async_get_condition_mappings_defaults ==
    "tick_type" :> PyChars(<<"t", "r", "a", "d", "e", "s">>)
    @@ "raw_response" :> PyBool(FALSE)

async_get_condition_mappings(c, a, resp) ==
    LET _path == "/v1/meta/conditions/" \o fstr(lower(a["tick_type"]))
        _res == _get_async_response(c, _path, NoParams, PyBool(TRUE), resp)
    IN  return_response(_res, a["raw_response"])

async_get_conditions_defaults ==
    "asset_class" :> PyNone
    @@ "data_type" :> PyNone
    @@ "id" :> PyNone
    @@ "sip" :> PyNone
    @@ "order" :> PyNone
    @@ "limit" :> PyInt(50)
    @@ "sort" :> PyStr("name")
    @@ "raw_response" :> PyBool(FALSE)

async_get_conditions(c, a, resp) ==
    LET _path == "/vX/reference/conditions"
        _data == ("asset_class" :> a["asset_class"]
                    @@ "data_type" :> a["data_type"]
                    @@ "id" :> a["id"]
                    @@ "sip" :> a["sip"]
                    @@ "order" :> a["order"]
                    @@ "limit" :> a["limit"]
                    @@ "sort" :> a["sort"])
        _res == _get_async_response(c, _path, _data, PyBool(TRUE), resp)
    IN  return_response(_res, a["raw_response"])

async_get_exchanges_defaults ==
    "asset_class" :> PyNone
    @@ "locale" :> PyNone
    @@ "raw_response" :> PyBool(FALSE)

async_get_exchanges(c, a, resp) ==
    LET _path == "/v3/reference/exchanges"
        _data == ("asset_class" :> a["asset_class"]
                    @@ "locale" :> a["locale"])
        _res == _get_async_response(c, _path, _data, PyBool(TRUE), resp)
    IN  return_response(_res, a["raw_response"])

async_get_locales_defaults ==
    "raw_response" :> PyBool(FALSE)

async_get_locales(c, a, resp) ==
    LET _path == "/v2/reference/locales"
        _res == _get_async_response(c, _path, NoParams, PyBool(TRUE), resp)
    IN  return_response(_res, a["raw_response"])

async_get_markets_defaults ==
    "raw_response" :> PyBool(FALSE)

async_get_markets(c, a, resp) ==
    LET _path == "/v2/reference/markets"
        _res == _get_async_response(c, _path, NoParams, PyBool(TRUE), resp)
    IN  return_response(_res, a["raw_response"])

\* the defaults of op's parameters (its signature)
Defaults(op) ==
    CASE op = "get_tickers" -> get_tickers_defaults
      [] op = "get_ticker_types_v3" -> get_ticker_types_v3_defaults
      [] op = "get_ticker_details" -> get_ticker_details_defaults
      [] op = "get_ticker_details_vx" -> get_ticker_details_vx_defaults
      [] op = "get_option_contracts" -> get_option_contracts_defaults
      [] op = "get_ticker_news" -> get_ticker_news_defaults
      [] op = "get_stock_dividends" -> get_stock_dividends_defaults
      [] op = "get_stock_financials" -> get_stock_financials_defaults
      [] op = "get_stock_financials_vx" -> get_stock_financials_vx_defaults
      [] op = "get_stock_splits" -> get_stock_splits_defaults
      [] op = "get_market_holidays" -> get_market_holidays_defaults
      [] op = "get_market_status" -> get_market_status_defaults
      [] op = "get_condition_mappings" -> get_condition_mappings_defaults
      [] op = "get_conditions" -> get_conditions_defaults
      [] op = "get_exchanges" -> get_exchanges_defaults
      [] op = "get_locales" -> get_locales_defaults
      [] op = "get_markets" -> get_markets_defaults
      [] op = "async_get_tickers" -> async_get_tickers_defaults
      [] op = "async_get_ticker_types_v3" -> async_get_ticker_types_v3_defaults
      [] op = "async_get_ticker_details" -> async_get_ticker_details_defaults
      [] op = "async_get_ticker_details_vx" -> async_get_ticker_details_vx_defaults
      [] op = "async_get_option_contracts" -> async_get_option_contracts_defaults
      [] op = "async_get_ticker_news" -> async_get_ticker_news_defaults
      [] op = "async_get_stock_dividends" -> async_get_stock_dividends_defaults
      [] op = "async_get_stock_financials" -> async_get_stock_financials_defaults
      [] op = "async_get_stock_financials_vx" -> async_get_stock_financials_vx_defaults
      [] op = "async_get_stock_splits" -> async_get_stock_splits_defaults
      [] op = "async_get_market_holidays" -> async_get_market_holidays_defaults
      [] op = "async_get_market_status" -> async_get_market_status_defaults
      [] op = "async_get_condition_mappings" -> async_get_condition_mappings_defaults
      [] op = "async_get_conditions" -> async_get_conditions_defaults
      [] op = "async_get_exchanges" -> async_get_exchanges_defaults
      [] op = "async_get_locales" -> async_get_locales_defaults
      [] op = "async_get_markets" -> async_get_markets_defaults

\* the parameters of op that have no default
Required(op) ==
    CASE op = "get_ticker_details" -> {"symbol"}
      [] op = "get_ticker_details_vx" -> {"symbol"}
      [] op = "get_stock_dividends" -> {"symbol"}
      [] op = "get_stock_financials" -> {"symbol"}
      [] op = "get_stock_splits" -> {"symbol"}
      [] op = "async_get_ticker_details" -> {"symbol"}
      [] op = "async_get_ticker_details_vx" -> {"symbol"}
      [] op = "async_get_stock_dividends" -> {"symbol"}
      [] op = "async_get_stock_financials" -> {"symbol"}
      [] op = "async_get_stock_splits" -> {"symbol"}
      [] OTHER -> {}

\* self.op(**a), answered by resp
Invoke(op, c, a, resp) ==
    CASE op = "get_tickers" -> get_tickers(c, a, resp)
      [] op = "get_ticker_types_v3" -> get_ticker_types_v3(c, a, resp)
      [] op = "get_ticker_details" -> get_ticker_details(c, a, resp)
      [] op = "get_ticker_details_vx" -> get_ticker_details_vx(c, a, resp)
      [] op = "get_option_contracts" -> get_option_contracts(c, a, resp)
      [] op = "get_ticker_news" -> get_ticker_news(c, a, resp)
      [] op = "get_stock_dividends" -> get_stock_dividends(c, a, resp)
      [] op = "get_stock_financials" -> get_stock_financials(c, a, resp)
      [] op = "get_stock_financials_vx" -> get_stock_financials_vx(c, a, resp)
      [] op = "get_stock_splits" -> get_stock_splits(c, a, resp)
      [] op = "get_market_holidays" -> get_market_holidays(c, a, resp)
      [] op = "get_market_status" -> get_market_status(c, a, resp)
      [] op = "get_condition_mappings" -> get_condition_mappings(c, a, resp)
      [] op = "get_conditions" -> get_conditions(c, a, resp)
      [] op = "get_exchanges" -> get_exchanges(c, a, resp)
      [] op = "get_locales" -> get_locales(c, a, resp)
      [] op = "get_markets" -> get_markets(c, a, resp)
      [] op = "async_get_tickers" -> async_get_tickers(c, a, resp)
      [] op = "async_get_ticker_types_v3" -> async_get_ticker_types_v3(c, a, resp)
      [] op = "async_get_ticker_details" -> async_get_ticker_details(c, a, resp)
      [] op = "async_get_ticker_details_vx" -> async_get_ticker_details_vx(c, a, resp)
      [] op = "async_get_option_contracts" -> async_get_option_contracts(c, a, resp)
      [] op = "async_get_ticker_news" -> async_get_ticker_news(c, a, resp)
      [] op = "async_get_stock_dividends" -> async_get_stock_dividends(c, a, resp)
      [] op = "async_get_stock_financials" -> async_get_stock_financials(c, a, resp)
      [] op = "async_get_stock_financials_vx" -> async_get_stock_financials_vx(c, a, resp)
      [] op = "async_get_stock_splits" -> async_get_stock_splits(c, a, resp)
      [] op = "async_get_market_holidays" -> async_get_market_holidays(c, a, resp)
      [] op = "async_get_market_status" -> async_get_market_status(c, a, resp)
      [] op = "async_get_condition_mappings" -> async_get_condition_mappings(c, a, resp)
      [] op = "async_get_conditions" -> async_get_conditions(c, a, resp)
      [] op = "async_get_exchanges" -> async_get_exchanges(c, a, resp)
      [] op = "async_get_locales" -> async_get_locales(c, a, resp)
      [] op = "async_get_markets" -> async_get_markets(c, a, resp)

(***************************************************************************)
(* The pagination helpers.                                                 *)
(***************************************************************************)
\* a body with no handler: the exception goes on to the caller
except_nothing(out) == out

\* except KeyError: return False
except_KeyError(out) ==
    IF IsRaise(out.ret) /\ out.ret.raise = "KeyError"
    THEN [out EXCEPT !.ret = PyBool(FALSE)]
    ELSE out

\* ReferenceClient.get_next_page_tickers
get_next_page_tickers(c, old_response, raw_response, resp) ==
    LET decoded == IF ~isinstance_dict(old_response) THEN json(old_response) ELSE old_response
        _next_url == IF IsRaise(decoded) THEN decoded ELSE getitem(decoded, "next_url")
    IN  except_KeyError(IF IsRaise(_next_url)
                        THEN Outcome(c, <<>>, _next_url)
                        ELSE get_next_page_by_url(c, _next_url, raw_response, resp))

\* a get_next_page_option_contracts that takes only a decoded mapping
get_next_page_option_contracts_decoded_only(c, old_response, raw_response, resp) ==
    LET _next_url == IF ~isinstance_dict(old_response)
                     THEN Raise("KeyError")
                     ELSE getitem(old_response, "next_url")
    IN  except_KeyError(IF IsRaise(_next_url)
                        THEN Outcome(c, <<>>, _next_url)
                        ELSE get_next_page_by_url(c, _next_url, raw_response, resp))

\* ReferenceClient.get_next_page_option_contracts
get_next_page_option_contracts(c, old_response, raw_response, resp) ==
    LET decoded == IF ~isinstance_dict(old_response) THEN json(old_response) ELSE old_response
        _next_url == IF IsRaise(decoded) THEN decoded ELSE getitem(decoded, "next_url")
    IN  except_KeyError(IF IsRaise(_next_url)
                        THEN Outcome(c, <<>>, _next_url)
                        ELSE get_next_page_by_url(c, _next_url, raw_response, resp))

\* a get_next_page_news whose handler catches every exception
get_next_page_news_catch_all(c, old_response, raw_response, resp) ==
    LET decoded == IF ~isinstance_dict(old_response) THEN json(old_response) ELSE old_response
        _next_url == IF IsRaise(decoded) THEN decoded ELSE getitem(decoded, "next_url")
        out == IF IsRaise(_next_url)
               THEN Outcome(c, <<>>, _next_url)
               ELSE get_next_page_by_url(c, _next_url, raw_response, resp)
    IN  IF IsRaise(out.ret) THEN [out EXCEPT !.ret = PyBool(FALSE)] ELSE out

\* ReferenceClient.get_next_page_news
get_next_page_news(c, old_response, raw_response, resp) ==
    LET decoded == IF ~isinstance_dict(old_response) THEN json(old_response) ELSE old_response
        _next_url == IF IsRaise(decoded) THEN decoded ELSE getitem(decoded, "next_url")
    IN  except_KeyError(IF IsRaise(_next_url)
                        THEN Outcome(c, <<>>, _next_url)
                        ELSE get_next_page_by_url(c, _next_url, raw_response, resp))

\* an async_get_next_page_tickers that asks for the next page twice
async_get_next_page_tickers_twice(c, old_response, raw_response, resp) ==
    LET decoded == IF ~isinstance_dict(old_response) THEN json(old_response) ELSE old_response
        _next_url == IF IsRaise(decoded) THEN decoded ELSE getitem(decoded, "next_url")
        out == except_KeyError(IF IsRaise(_next_url)
                               THEN Outcome(c, <<>>, _next_url)
                               ELSE async_get_next_page_by_url(c, _next_url, raw_response, resp))
    IN  [out EXCEPT !.reqs = @ \o @, !.resps = @ \o @]

\* ReferenceClient.async_get_next_page_tickers
async_get_next_page_tickers(c, old_response, raw_response, resp) ==
    LET decoded == IF ~isinstance_dict(old_response) THEN json(old_response) ELSE old_response
        _next_url == IF IsRaise(decoded) THEN decoded ELSE getitem(decoded, "next_url")
    IN  except_KeyError(IF IsRaise(_next_url)
                        THEN Outcome(c, <<>>, _next_url)
                        ELSE async_get_next_page_by_url(c, _next_url, raw_response, resp))

\* ReferenceClient.async_get_next_page_news
async_get_next_page_news(c, old_response, raw_response, resp) ==
    LET decoded == IF ~isinstance_dict(old_response) THEN json(old_response) ELSE old_response
        _next_url == IF IsRaise(decoded) THEN decoded ELSE getitem(decoded, "next_url")
    IN  except_KeyError(IF IsRaise(_next_url)
                        THEN Outcome(c, <<>>, _next_url)
                        ELSE async_get_next_page_by_url(c, _next_url, raw_response, resp))

\* self.op(old_response, raw_response), the follow-up GET answered by resp
InvokeNextPage(op, c, old_response, raw_response, resp) ==
    CASE op = "get_next_page_tickers" ->
            get_next_page_tickers(c, old_response, raw_response, resp)
      [] op = "get_next_page_option_contracts" ->
            get_next_page_option_contracts(c, old_response, raw_response, resp)
      [] op = "get_next_page_news" ->
            get_next_page_news(c, old_response, raw_response, resp)
      [] op = "async_get_next_page_tickers" ->
            async_get_next_page_tickers(c, old_response, raw_response, resp)
      [] op = "async_get_next_page_news" ->
            async_get_next_page_news(c, old_response, raw_response, resp)

\* self.op(url, raw_response)
InvokeByUrl(op, c, url, raw_response, resp) ==
    CASE op = "get_next_page_by_url" -> get_next_page_by_url(c, url, raw_response, resp)
      [] op = "async_get_next_page_by_url" ->
            async_get_next_page_by_url(c, url, raw_response, resp)

(***************************************************************************)
(* The deprecated stubs: static methods that print a notice and return.    *)
(* The sync stubs and async_get_ticker_types take any positional and any   *)
(* keyword arguments; the async exchange stubs take keyword arguments      *)
(* only, so that binding a positional argument to them raises TypeError    *)
(* before the body runs.                                                   *)
(***************************************************************************)
\* ReferenceClient.get_ticker_types
get_ticker_types(c, args, kwargs) ==
    [Outcome(c, <<>>, PyNone) EXCEPT !.stdout =
        <<"This endpoint has been deprecated and Replaced by New Ticker Types (get_ticker_types_v3). Please Use the new endpoint.">>]

\* ReferenceClient.get_stock_exchanges
get_stock_exchanges(c, args, kwargs) ==
    [Outcome(c, <<>>, PyNone) EXCEPT !.stdout =
        <<"This endpoint has been deprecated and replaced by new Exchanges endpoint. Please use get_exchanges().">>]

\* ReferenceClient.get_crypto_exchanges
get_crypto_exchanges(c, args, kwargs) ==
    [Outcome(c, <<>>, PyNone) EXCEPT !.stdout =
        <<"This endpoint has been deprecated and replaced by new Exchanges endpoint. Please use get_exchanges().">>]

\* ReferenceClient.async_get_ticker_types
async_get_ticker_types(c, args, kwargs) ==
    [Outcome(c, <<>>, PyNone) EXCEPT !.stdout =
        <<"This endpoint has been deprecated and Replaced by New Ticker Types (async_get_ticker_types_v3). Please Use  the new endpoint.">>]

\* ReferenceClient.async_get_stock_exchanges
async_get_stock_exchanges(c, args, kwargs) ==
    IF args # <<>>
    THEN Outcome(c, <<>>, Raise("TypeError"))
    ELSE [Outcome(c, <<>>, PyNone) EXCEPT !.stdout =
            <<"This endpoint has been deprecated and replaced by new Exchanges endpoint. Please use get_exchanges().">>]

\* ReferenceClient.async_get_crypto_exchanges
async_get_crypto_exchanges(c, args, kwargs) ==
    IF args # <<>>
    THEN Outcome(c, <<>>, Raise("TypeError"))
    ELSE [Outcome(c, <<>>, PyNone) EXCEPT !.stdout =
            <<"This endpoint has been deprecated and replaced by new Exchanges endpoint. Please use get_exchanges().">>]

\* the call of a deprecated stub by name, with positional and keyword arguments
InvokeDeprecated(op, c, args, kwargs) ==
    CASE op = "get_ticker_types" -> get_ticker_types(c, args, kwargs)
      [] op = "get_stock_exchanges" -> get_stock_exchanges(c, args, kwargs)
      [] op = "get_crypto_exchanges" -> get_crypto_exchanges(c, args, kwargs)
      [] op = "async_get_ticker_types" -> async_get_ticker_types(c, args, kwargs)
      [] op = "async_get_stock_exchanges" -> async_get_stock_exchanges(c, args, kwargs)
      [] op = "async_get_crypto_exchanges" -> async_get_crypto_exchanges(c, args, kwargs)

(***************************************************************************)
(* The methods by kind.  A method whose name starts with async_ is for a   *)
(* client made with use_async=True, the others for a sync client.          *)
(***************************************************************************)
SyncEndpointOps ==
    {"get_tickers", "get_ticker_types_v3", "get_ticker_details", "get_ticker_details_vx",
     "get_option_contracts", "get_ticker_news", "get_stock_dividends",
     "get_stock_financials", "get_stock_financials_vx", "get_stock_splits",
     "get_market_holidays", "get_market_status", "get_condition_mappings",
     "get_conditions", "get_exchanges", "get_locales", "get_markets"}

\* the async counterpart of a sync method
AsyncOf(op) == "async_" \o op

AsyncEndpointOps == {AsyncOf(op) : op \in SyncEndpointOps}

EndpointOps(use_async) == IF use_async THEN AsyncEndpointOps ELSE SyncEndpointOps

AllEndpointOps == SyncEndpointOps \cup AsyncEndpointOps

SyncNextPageOps ==
    {"get_next_page_tickers", "get_next_page_option_contracts", "get_next_page_news"}

\* get_next_page_option_contracts has no async counterpart in the class
AsyncNextPageOps == {"async_get_next_page_tickers", "async_get_next_page_news"}

NextPageOps(use_async) == IF use_async THEN AsyncNextPageOps ELSE SyncNextPageOps

AllNextPageOps == SyncNextPageOps \cup AsyncNextPageOps

ByUrlOp(use_async) ==
    IF use_async THEN "async_get_next_page_by_url" ELSE "get_next_page_by_url"

SyncDeprecatedOps == {"get_ticker_types", "get_stock_exchanges", "get_crypto_exchanges"}

DeprecatedOps(use_async) ==
    IF use_async THEN {AsyncOf(op) : op \in SyncDeprecatedOps} ELSE SyncDeprecatedOps

\* the public methods the class defines without the async_ prefix, and with it
SyncMethods ==
    SyncEndpointOps \cup SyncNextPageOps \cup SyncDeprecatedOps
        \cup {"get_next_page_by_url", "close"}

AsyncMethods ==
    AsyncEndpointOps \cup AsyncNextPageOps \cup {AsyncOf(op) : op \in SyncDeprecatedOps}
        \cup {"async_get_next_page_by_url", "async_close"}

(***************************************************************************)
(* The inputs: what callers pass and what the server answers.              *)
(***************************************************************************)
ApiKeys == {"KEY"}

\* the characters of the symbols callers pass
Alphabet == {"a", "A", "b", "."}

RECURSIVE CharsUpTo(_)
CharsUpTo(n) ==
    IF n = 0 THEN {<<>>}
    ELSE LET S == CharsUpTo(n - 1)
         IN  S \cup {Append(cs, ch) : cs \in S, ch \in Alphabet}

Symbols == {PyChars(cs) : cs \in CharsUpTo(MaxSymLen) \ {<<>>}}

SampleSymbols == {PyChars(<<"a", "a", "p", "l">>)}

\* the parameters documented as taking a date, a datetime or a 'YYYY-MM-DD' string
DateParams ==
    {"date",
     "expiration_date", "expiration_date_lt", "expiration_date_lte",
     "expiration_date_gt", "expiration_date_gte",
     "published_utc", "published_utc_lt", "published_utc_lte",
     "published_utc_gt", "published_utc_gte",
     "filing_date", "filing_date_lt", "filing_date_lte",
     "filing_date_gt", "filing_date_gte",
     "period_of_report_date", "period_of_report_date_lt", "period_of_report_date_lte",
     "period_of_report_date_gt", "period_of_report_date_gte"}

DateValues ==
    {PyDate(2021, 1, 5), PyDateTime(2022, 12, 31, 23, 59), PyStr("2021-01-05"),
     PyStr("5 Jan 2021")}

\* the parameters whose letter case op changes (held as PyChars)
CaseParams(op) == IF "symbol" \in Required(op) THEN {"symbol"} ELSE {"tick_type"}

\* the values callers pass for parameter p of op
ArgValues(op, p) ==
    CASE p \in CaseParams(op) -> Symbols
      [] p \in DateParams -> DateValues
      [] p \in {"raw_response", "active", "include_sources"} -> {PyBool(TRUE), PyBool(FALSE)}
      [] p = "limit" -> {PyInt(50)}
      [] p = "symbol_type" -> {PyStr("CS")}
      [] p = "market" -> {PyStr("stocks")}
      [] OTHER -> {PyStr("A")}

NoKwargs == [p \in {} |-> PyNone]

\* the keyword arguments of a call of op: every required parameter, from syms,
\* and at most n of the optional parameters DOMAIN vals, p taking a value of vals[p]
RECURSIVE Kwargs(_, _, _, _)
Kwargs(op, n, syms, vals) ==
    IF n = 0
    THEN IF Required(op) = {} THEN {NoKwargs} ELSE {("symbol" :> s) : s \in syms}
    ELSE LET K == Kwargs(op, n - 1, syms, vals)
         IN  K \cup UNION {UNION {{k @@ (p :> v) : v \in vals[p]} :
                                  p \in DOMAIN vals \ DOMAIN k} : k \in K}

\* the range filters of op: the parameter of each filterable field and of its
\* lt, lte, gt, gte variants
RangeGroups(op) ==
    LET Group(base, field) ==
            {base, field \o "_lt", field \o "_lte", field \o "_gt", field \o "_gte"}
    IN  CASE op \in {"get_tickers", "async_get_tickers"} -> {Group("symbol", "ticker")}
          [] op \in {"get_option_contracts", "async_get_option_contracts"} ->
                {Group("expiration_date", "expiration_date")}
          [] op \in {"get_ticker_news", "async_get_ticker_news"} ->
                {Group("symbol", "ticker"), Group("published_utc", "published_utc")}
          [] op \in {"get_stock_financials_vx", "async_get_stock_financials_vx"} ->
                {Group("filing_date", "filing_date"),
                 Group("period_of_report_date", "period_of_report_date")}
          [] OTHER -> {}

\* calls that pass any of the parameters of one range filter, in every combination
RangeKwargs(op) ==
    UNION {UNION {[S -> UNION {ArgValues(op, p) : p \in G}] : S \in SUBSET G} :
           G \in RangeGroups(op)}

\* the calls of the documented end-to-end scenarios
ScenarioKwargs(op) ==
    IF op \in {"get_tickers", "async_get_tickers"}
    THEN {"symbol_type" :> PyStr("CS") @@ "market" :> PyStr("stocks") @@ "limit" :> PyInt(50)}
    ELSE {}

BuildKwargs(op) ==
    Kwargs(op, MaxKwargs, Symbols, [p \in DOMAIN Defaults(op) |-> ArgValues(op, p)])
        \cup RangeKwargs(op) \cup ScenarioKwargs(op)

SampleParams == {"limit", "date"}

SampleValues(p) ==
    CASE p = "limit" -> {PyInt(50)}
      [] p = "date" -> {PyDateTime(2022, 12, 31, 23, 59)}

SampleKwargs(op) ==
    Kwargs(op, 1, SampleSymbols,
           [p \in DOMAIN Defaults(op) \cap SampleParams |-> SampleValues(p)])

\* f(*args, **kwargs): each parameter bound to the argument given or to its default
Bind(op, kwargs) == kwargs @@ Defaults(op)

NextUrls ==
    {"https://api.polygon.io/v3/reference/tickers?cursor=abc",
     "https://api.example.com/v3/x?cursor=abc"}

LastPage == ("status" :> PyStr("OK"))

MorePages(url) == ("status" :> PyStr("OK") @@ "next_url" :> PyStr(url))

PageDicts == {LastPage} \cup {MorePages(url) : url \in NextUrls}

\* what the server answers to a GET
Responses == {Response(200, JsonBody(LastPage)), Response(200, NotJsonBody)}

OkResponse == Response(200, JsonBody(LastPage))

\* what callers hand to a pagination helper: a decoded body or a raw response
OldResponses ==
    {PyDict(d) : d \in PageDicts}
        \cup {Response(200, JsonBody(d)) : d \in PageDicts} \cup {Response(200, NotJsonBody)}

\* what callers pass to a deprecated stub: nothing, or the arguments of the
\* endpoint it once was
StubArgs == {<<>>, <<PyStr("stocks")>>}

StubKwargs == {NoKwargs, "raw_response" :> PyBool(TRUE)}

\* the URL of page k of a paginated ticker listing, k > 1
PageUrl(k) == "https://api.polygon.io/v3/reference/tickers?cursor=" \o Digit(k)

\* page k of n as the server sends it: next_url names page k + 1, the last page has none
ServerPage(n, k) ==
    IF k < n
    THEN "status" :> PyStr("OK") @@ "page" :> PyInt(k) @@ "next_url" :> PyStr(PageUrl(k + 1))
    ELSE "status" :> PyStr("OK") @@ "page" :> PyInt(k)

\* what a server holding n pages answers to a GET of url: the page the cursor
\* names, and the first page to a URL without a cursor
Serve(n, url) ==
    IF \E k \in 2..n : url = PageUrl(k)
    THEN Response(200, JsonBody(ServerPage(n, CHOOSE k \in 2..n : url = PageUrl(k))))
    ELSE Response(200, JsonBody(ServerPage(n, 1)))

\* the number of the page a call returned, raw or decoded
PageNumber(ret) ==
    IF isinstance_dict(ret) THEN ret.dict["page"].int ELSE ret.body.json_text["page"].int

\* the body of an error answer
ErrorPage == ("status" :> PyStr("ERROR") @@ "error" :> PyStr("Unknown API Key"))

\* what comes back of a GET when the server or the network may fail: an answer of
\* any status, decodable or not, or an exception raised by session.request
Replies ==
    Responses \cup {Response(404, JsonBody(ErrorPage)), Response(500, NotJsonBody),
                    Raise("ConnectionError")}

\* the ways the body of a with statement ends by itself: normally, or with an
\* exception of the caller's code
BodyExits == {PyNone, PyStr("RuntimeError")}

\* the sampled calls, raw_response left at its default or given
ReplyKwargs(op) ==
    SampleKwargs(op) \cup {k @@ ("raw_response" :> PyBool(TRUE)) : k \in SampleKwargs(op)}

\* raw_response left at its default, or given
RawResponseKwargs == {NoKwargs, "raw_response" :> PyBool(TRUE)}

RawResponseOf(kwargs) ==
    IF "raw_response" \in DOMAIN kwargs THEN kwargs["raw_response"] ELSE PyBool(FALSE)

(***************************************************************************)
(* The state machine.                                                      *)
(***************************************************************************)
NoCall == [op |-> "", args |-> <<>>, kwargs |-> NoKwargs, old |-> PyNone, reqs |-> <<>>,
           resps |-> <<>>, ret |-> PyNone, stdout |-> <<>>, closed |-> FALSE]

NoProbe == [op |-> "", kwargs |-> NoKwargs, reqs |-> <<>>, again |-> FALSE]

NoPages == [total |-> 0, got |-> <<>>, gets |-> 0, latest |-> PyNone, done |-> FALSE]

NoScope == [hook |-> "", state |-> "out", as |-> PyNone, exc |-> PyNone, raised |-> FALSE]

Init ==
    /\ \E api_key \in ApiKeys, use_async \in BOOLEAN : client = __init__(api_key, use_async)
    /\ last = NoCall
    /\ probe = NoProbe
    /\ scope = NoScope
    /\ pages = NoPages

\* the record of a call and of what it did; closed tells whether the session was
\* closed when the call was made
Call(op, args, kwargs, old, out) ==
    [op |-> op, args |-> args, kwargs |-> kwargs, old |-> old, reqs |-> out.reqs,
     resps |-> out.resps, ret |-> out.ret, stdout |-> out.stdout,
     closed |-> client.session.closed]

\* a call returned (or raised): the client is as the call left it, and the call is
\* on record with the requests it handed to the session
ReturnedFrom(op, args, kwargs, old, out) ==
    /\ client' = out.client
    /\ last' = Call(op, args, kwargs, old, out)
    /\ probe' = IF probe.op = "" THEN probe ELSE [probe EXCEPT !.again = TRUE]
    /\ UNCHANGED <<scope, pages>>

\* the same, of a call without positional arguments
Returned(op, kwargs, old, out) == ReturnedFrom(op, <<>>, kwargs, old, out)

\* a call of an endpoint method
Endpoint ==
    \E op \in EndpointOps(client._async) :
         \E kwargs \in SampleKwargs(op), resp \in Responses :
            Returned(op, kwargs, PyNone, Invoke(op, client, Bind(op, kwargs), resp))

\* a call of a pagination helper
NextPage ==
    \E op \in NextPageOps(client._async), old_response \in OldResponses,
          kwargs \in RawResponseKwargs, resp \in Responses :
            Returned(op, kwargs, old_response,
                     InvokeNextPage(op, client, old_response, RawResponseOf(kwargs), resp))

\* a call of get_next_page_by_url / async_get_next_page_by_url
NextPageByUrl ==
    \E url \in NextUrls, kwargs \in RawResponseKwargs, resp \in Responses :
            Returned(ByUrlOp(client._async), kwargs, PyStr(url),
                     InvokeByUrl(ByUrlOp(client._async), client, PyStr(url),
                                 RawResponseOf(kwargs), resp))

\* a call of a deprecated stub
Deprecated ==
    \E op \in DeprecatedOps(client._async), args \in StubArgs, kwargs \in StubKwargs :
        ReturnedFrom(op, args, kwargs, PyNone, InvokeDeprecated(op, client, args, kwargs))

\* the observer remembers the endpoint call just made, to compare later calls with it
Observe ==
    /\ last.op \in AllEndpointOps
    /\ probe' = [op |-> last.op, kwargs |-> last.kwargs, reqs |-> last.reqs,
                 again |-> FALSE]
    /\ UNCHANGED <<client, last, scope, pages>>

Next == Endpoint \/ NextPage \/ NextPageByUrl \/ Deprecated

Spec == Init /\ [][Next]_vars

\* the same calls, watched by the observer
ObserveNext == Endpoint \/ NextPage \/ NextPageByUrl \/ Deprecated \/ Observe

ObserveSpec == Init /\ [][ObserveNext]_vars

\* one endpoint call on a fresh client, its arguments drawn from all of BuildKwargs
BuildEndpoint ==
    /\ last = NoCall
    /\ \E op \in EndpointOps(client._async) :
         \E kwargs \in BuildKwargs(op) :
            Returned(op, kwargs, PyNone, Invoke(op, client, Bind(op, kwargs), OkResponse))

BuildNext == BuildEndpoint

BuildSpec == Init /\ [][BuildNext]_vars

\* the calls of Next against a server and a network that may fail, raw_response
\* given or left at its default
EndpointReply ==
    \E op \in EndpointOps(client._async) :
         \E kwargs \in ReplyKwargs(op), resp \in Replies :
            Returned(op, kwargs, PyNone, Invoke(op, client, Bind(op, kwargs), resp))

NextPageReply ==
    \E op \in NextPageOps(client._async), old_response \in OldResponses,
          kwargs \in RawResponseKwargs, resp \in Replies :
            Returned(op, kwargs, old_response,
                     InvokeNextPage(op, client, old_response, RawResponseOf(kwargs), resp))

NextPageByUrlReply ==
    \E url \in NextUrls, kwargs \in RawResponseKwargs, resp \in Replies :
            Returned(ByUrlOp(client._async), kwargs, PyStr(url),
                     InvokeByUrl(ByUrlOp(client._async), client, PyStr(url),
                                 RawResponseOf(kwargs), resp))

ReplyNext == EndpointReply \/ NextPageReply \/ NextPageByUrlReply

ReplySpec == Init /\ [][ReplyNext]_vars

\* a caller asks for the first page of a listing the server holds in n pages
FirstPage ==
    /\ pages.total = 0
    /\ \E n \in 1..MaxPages, kwargs \in RawResponseKwargs :
         LET op == IF client._async THEN "async_get_tickers" ELSE "get_tickers"
             asked == Invoke(op, client, Bind(op, kwargs), OkResponse).reqs[1]
             out == Invoke(op, client, Bind(op, kwargs), Serve(n, asked.url))
         IN  /\ client' = out.client
             /\ last' = Call(op, <<>>, kwargs, PyNone, out)
             /\ pages' = [total |-> n, got |-> <<PageNumber(out.ret)>>, gets |-> 0,
                          latest |-> out.ret, done |-> FALSE]
    /\ UNCHANGED <<probe, scope>>

\* the caller feeds the latest response to a pagination helper, and stops when
\* the helper returns False; the server answers the URL the helper asks for
FollowPage ==
    /\ pages.total > 0
    /\ ~pages.done
    /\ \E op \in NextPageOps(client._async), kwargs \in RawResponseKwargs :
         LET asked == InvokeNextPage(op, client, pages.latest, RawResponseOf(kwargs),
                                     OkResponse).reqs
             resp == IF asked = <<>> THEN OkResponse ELSE Serve(pages.total, asked[1].url)
             out == InvokeNextPage(op, client, pages.latest, RawResponseOf(kwargs), resp)
         IN  /\ client' = out.client
             /\ last' = Call(op, <<>>, kwargs, pages.latest, out)
             /\ pages' = IF out.ret = PyBool(FALSE)
                          THEN [pages EXCEPT !.gets = @ + Len(out.reqs), !.done = TRUE]
                          ELSE [pages EXCEPT !.gets = @ + Len(out.reqs),
                                             !.got = Append(@, PageNumber(out.ret)),
                                             !.latest = out.ret]
    /\ UNCHANGED <<probe, scope>>

PageNext == FirstPage \/ FollowPage

PageSpec == Init /\ [][PageNext]_vars

\* the caller enters a with (or async with) statement on the client: Python calls
\* __enter__ (or __aenter__) and binds what it returns
EnterScope ==
    /\ scope.state = "out"
    /\ \E hook \in {"with", "async with"} :
         LET op == IF hook = "with" THEN "__enter__" ELSE "__aenter__"
             out == IF hook = "with" THEN __enter__(client) ELSE __aenter__(client)
         IN  /\ client' = out.client
             /\ last' = Call(op, <<>>, NoKwargs, PyNone, out)
             /\ scope' = [NoScope EXCEPT !.hook = hook, !.state = "in", !.as = out.ret]
    /\ UNCHANGED <<probe, pages>>

\* an endpoint call made while the session is open
OpenCall == ~client.session.closed /\ Endpoint

\* the body of the statement ends, normally (exc is None) or with an exception
\* (the one the last call raised, or one of the caller's own): Python calls
\* __exit__ (or __aexit__) with it, and raises it again unless the hook returns true
ExitScope ==
    /\ scope.state = "in"
    /\ \E exc \in BodyExits \cup (IF IsRaise(last.ret) THEN {PyStr(last.ret.raise)} ELSE {}) :
         LET op == IF scope.hook = "with" THEN "__exit__" ELSE "__aexit__"
             out == IF scope.hook = "with"
                    THEN __exit__(client, exc)
                    ELSE __aexit__(client, exc)
         IN  /\ client' = out.client
             /\ last' = Call(op, <<exc>>, NoKwargs, PyNone, out)
             /\ scope' = [scope EXCEPT !.state = "left", !.exc = exc,
                                       !.raised = (exc # PyNone /\ ~truthy(out.ret))]
    /\ UNCHANGED <<probe, pages>>

\* a call of close() or of async_close()
Close ==
    \E op \in {"close", "async_close"} :
        Returned(op, NoKwargs, PyNone, IF op = "close" THEN close(client) ELSE async_close(client))

ScopeNext == EnterScope \/ OpenCall \/ ExitScope \/ Close

ScopeSpec == Init /\ [][ScopeNext]_vars

\* the whole life of a client: every method, in and out of a with statement,
\* before and after the session was closed
LifeNext ==
    \/ Endpoint \/ NextPage \/ NextPageByUrl \/ Deprecated
    \/ EnterScope \/ ExitScope \/ Close

LifeSpec == Init /\ [][LifeNext]_vars

(***************************************************************************)
(* Vocabulary of the properties.                                           *)
(***************************************************************************)
\* the last call was of an endpoint method and handed the session one request
EndpointCalled == last.op \in AllEndpointOps /\ Len(last.reqs) = 1

\* the last call was of a pagination helper
NextPageCalled == last.op \in AllNextPageOps

\* the entries of a query mapping that carry a value: an entry whose value is
\* None stands for an unset parameter, and none at all (params=None) for no query
QueryOf(params) ==
    IF params = NoParams
    THEN NoKwargs
    ELSE [k \in {j \in DOMAIN params : params[j] # PyNone} |-> params[k]]

\* the query key the remote API gives parameter p of op
ParamKey(op, p) ==
    CASE p = "symbol" -> "ticker"
      [] p = "symbol_type" -> "type"
      [] p = "report_type" -> "type"
      [] p = "time_frame" -> "timeframe"
      [] p = "ticker_lt" -> "ticker.lt"
      [] p = "ticker_lte" -> "ticker.lte"
      [] p = "ticker_gt" -> "ticker.gt"
      [] p = "ticker_gte" -> "ticker.gte"
      [] p = "published_utc_lt" -> "published_utc.lt"
      [] p = "published_utc_lte" -> "published_utc.lte"
      [] p = "published_utc_gt" -> "published_utc.gt"
      [] p = "published_utc_gte" -> "published_utc.gte"
      [] OTHER -> p

\* the 'YYYY-MM-DD' string of the days the callers' dates fall on
IsoString(d) ==
    CASE d.year = 2021 /\ d.month = 1 /\ d.day = 5 -> "2021-01-05"
      [] d.year = 2022 /\ d.month = 12 /\ d.day = 31 -> "2022-12-31"

\* the request op makes on the current client when called with kwargs
RequestOf(op, kwargs) == Invoke(op, client, Bind(op, kwargs), OkResponse).reqs[1]

\* the sync method of an async method and the async method of a sync one
Counterpart(op) ==
    IF op \in SyncEndpointOps
    THEN AsyncOf(op)
    ELSE CHOOSE s \in SyncEndpointOps : AsyncOf(s) = op

\* the mapping an old response decodes to, when it is one or is JSON
DecodesToMapping(old) ==
    isinstance_dict(old) \/ ("body" \in DOMAIN old /\ "json_text" \in DOMAIN old.body)

MappingOf(old) == IF isinstance_dict(old) THEN old.dict ELSE old.body.json_text

(***************************************************************************)
(* C1: the ticker listing called with only symbol_type="CS",               *)
(* market="stocks", limit=50 makes one GET on /v3/reference/tickers whose  *)
(* query mapping is exactly type=CS, market=stocks, limit=50, active=true, *)
(* sort=ticker, order=asc, with no other key.                              *)
(***************************************************************************)
C1_TickersScenario ==
    (/\ last.op \in {"get_tickers", "async_get_tickers"}
     /\ last.kwargs \in ScenarioKwargs(last.op))
    => /\ Len(last.reqs) = 1
       /\ last.reqs[1].method = "GET"
       /\ last.reqs[1].url = "https://api.polygon.io/v3/reference/tickers"
       /\ QueryOf(last.reqs[1].params) =
            ("type" :> PyStr("CS") @@ "market" :> PyStr("stocks") @@ "limit" :> PyInt(50)
             @@ "active" :> PyBool(TRUE) @@ "sort" :> PyStr("ticker")
             @@ "order" :> PyStr("asc"))

(***************************************************************************)
(* C2: for every endpoint method and every optional parameter the caller   *)
(* leaves unset (None), the query mapping handed to the session has no     *)
(* entry under that parameter's key.                                       *)
(***************************************************************************)
C2_UnsetOmitted ==
    EndpointCalled =>
        \A p \in DOMAIN Defaults(last.op) \ DOMAIN last.kwargs :
            Defaults(last.op)[p] = PyNone
                => ParamKey(last.op, p) \notin DOMAIN QueryOf(last.reqs[1].params)

(***************************************************************************)
(* C3: for every date parameter, a call with a date or datetime value and  *)
(* the call with the 'YYYY-MM-DD' string of that day, all else equal, hand *)
(* the session the same query mapping.                                     *)
(***************************************************************************)
C3_DateAsString ==
    EndpointCalled =>
        \A p \in DOMAIN last.kwargs \cap DateParams :
            isinstance_date(last.kwargs[p])
                => last.reqs[1].params =
                     RequestOf(last.op,
                               [last.kwargs EXCEPT ![p] = PyStr(IsoString(last.kwargs[p]))]).params

(***************************************************************************)
(* C4: a sync endpoint and its async_ counterpart, given the same          *)
(* arguments (none at all included), hand the session the same path and    *)
(* the same query mapping.                                                 *)
(***************************************************************************)
C4_SyncAsyncSame ==
    EndpointCalled =>
        LET other == RequestOf(Counterpart(last.op), last.kwargs)
        IN  /\ last.reqs[1].url = other.url
            /\ last.reqs[1].params = other.params

(***************************************************************************)
(* C5: for every range-filterable field, the value under the key of each   *)
(* of the lt, lte, gt, gte variants is the caller's argument for that      *)
(* variant (a date as given or as its 'YYYY-MM-DD' string), and unset when *)
(* that argument is unset, whatever the other arguments of the field.      *)
(***************************************************************************)
C5_RangeIndependent ==
    EndpointCalled =>
        \A G \in RangeGroups(last.op) :
            \A p \in G \ {"symbol", "expiration_date", "published_utc", "filing_date",
                          "period_of_report_date"} :
                LET q == QueryOf(last.reqs[1].params)
                    key == ParamKey(last.op, p)
                IN  IF p \in DOMAIN last.kwargs
                    THEN /\ key \in DOMAIN q
                         /\ \/ q[key] = last.kwargs[p]
                            \/ /\ isinstance_date(last.kwargs[p])
                               /\ q[key] = PyStr(IsoString(last.kwargs[p]))
                    ELSE key \notin DOMAIN q

(***************************************************************************)
(* C6: when the old response (a decoded mapping, or a raw response that    *)
(* decodes to one) has a next_url U, each pagination helper makes exactly  *)
(* one GET, to exactly U, with no query mapping and no base URL prefixed.  *)
(***************************************************************************)
C6_FollowsNextUrl ==
    (/\ NextPageCalled
     /\ DecodesToMapping(last.old)
     /\ "next_url" \in DOMAIN MappingOf(last.old))
    => /\ Len(last.reqs) = 1
       /\ last.reqs[1].method = "GET"
       /\ PyStr(last.reqs[1].url) = MappingOf(last.old)["next_url"]
       /\ last.reqs[1].params = NoParams

C6_Witness ==
    /\ NextPageCalled
    /\ DecodesToMapping(last.old)
    /\ "next_url" \in DOMAIN MappingOf(last.old)
    /\ MappingOf(last.old)["next_url"] = PyStr("https://api.example.com/v3/x?cursor=abc")
    /\ ~isinstance_dict(last.old)
    /\ Len(last.reqs) = 1

(***************************************************************************)
(* C7: when the old response (a decoded mapping, or a raw response that    *)
(* decodes to one) has no next_url key, every pagination helper returns    *)
(* False, raises nothing and hands the session no request.                 *)
(***************************************************************************)
C7_NoNextPage ==
    (/\ NextPageCalled
     /\ DecodesToMapping(last.old)
     /\ "next_url" \notin DOMAIN MappingOf(last.old))
    => /\ last.ret = PyBool(FALSE)
       /\ last.reqs = <<>>

C7_Witness ==
    /\ NextPageCalled
    /\ DecodesToMapping(last.old)
    /\ "next_url" \notin DOMAIN MappingOf(last.old)
    /\ ~isinstance_dict(last.old)
    /\ last.ret = PyBool(FALSE)

(***************************************************************************)
(* C8: every endpoint with the ticker symbol in its path puts the          *)
(* upper-cased symbol there, and symbols that differ only in letter case   *)
(* resolve to the same path.                                               *)
(***************************************************************************)
SymbolOps == {op \in AllEndpointOps : "symbol" \in Required(op)}

\* the path of op with TEXT where the symbol goes
SymbolPath(op, text) ==
    CASE op \in {"get_ticker_details", "async_get_ticker_details"} ->
            "/v1/meta/symbols/" \o text \o "/company"
      [] op \in {"get_ticker_details_vx", "async_get_ticker_details_vx"} ->
            "/vX/reference/tickers/" \o text
      [] op \in {"get_stock_dividends", "async_get_stock_dividends"} ->
            "/v2/reference/dividends/" \o text
      [] op \in {"get_stock_financials", "async_get_stock_financials"} ->
            "/v2/reference/financials/" \o text
      [] op \in {"get_stock_splits", "async_get_stock_splits"} ->
            "/v2/reference/splits/" \o text

\* the upper-case form of the characters callers use
UpperCased(cs) ==
    [i \in DOMAIN cs |-> CASE cs[i] = "a" -> "A" [] cs[i] = "b" -> "B" [] OTHER -> cs[i]]

C8_SymbolUpperCased ==
    (last.op \in SymbolOps /\ Len(last.reqs) = 1) =>
        /\ last.reqs[1].url =
             "https://api.polygon.io"
                \o SymbolPath(last.op, Join(UpperCased(last.kwargs["symbol"].chars)))
        /\ \A s \in Symbols :
             UpperCased(s.chars) = UpperCased(last.kwargs["symbol"].chars)
                => RequestOf(last.op, [last.kwargs EXCEPT !["symbol"] = s]).url
                     = last.reqs[1].url

C8_Witness ==
    /\ last.op = "get_ticker_details"
    /\ Len(last.reqs) = 1
    /\ last.kwargs["symbol"] = PyChars(<<"a", "b">>)
    /\ last.reqs[1].url = "https://api.polygon.io/v1/meta/symbols/AB/company"

(***************************************************************************)
(* C9: the market-status operation makes one GET on /v1/marketstatus/now   *)
(* and sends no query parameter.                                           *)
(***************************************************************************)
C9_MarketStatus ==
    last.op \in {"get_market_status", "async_get_market_status"} =>
        /\ Len(last.reqs) = 1
        /\ last.reqs[1].method = "GET"
        /\ last.reqs[1].url = "https://api.polygon.io/v1/marketstatus/now"
        /\ DOMAIN QueryOf(last.reqs[1].params) = {}

C9_Witness ==
    /\ last.op = "async_get_market_status"
    /\ Len(last.reqs) = 1
    /\ last.reqs[1].params = NoParams

(***************************************************************************)
(* C10: an endpoint called again with identical arguments, whatever calls  *)
(* were made in between, makes a request of its own with the same path and *)
(* the same query mapping; no call changes the client.                     *)
(***************************************************************************)
C10_SameCallSameRequest ==
    /\ client = __init__(client.KEY, client._async)
    /\ (probe.op # "" /\ last.op = probe.op /\ last.kwargs = probe.kwargs)
        => /\ Len(last.reqs) = 1
           /\ last.reqs = probe.reqs

C10_Witness ==
    /\ probe.op = "get_tickers"
    /\ probe.again
    /\ last.op = probe.op
    /\ last.kwargs = probe.kwargs
    /\ "date" \in DOMAIN last.kwargs
    /\ IsRaise(last.ret)
    /\ Len(last.reqs) = 1

(***************************************************************************)
(* C11: when a client is run in the scope statement of its transport mode  *)
(* (with for a sync client, async with for an async client), its session   *)
(* is closed once the scope is left, whether the body ended normally or    *)
(* with an exception; the exception still reaches the caller.              *)
(***************************************************************************)
HookOfMode(c) == IF c._async THEN "async with" ELSE "with"

C11_ScopeExitCloses ==
    (scope.state = "left" /\ scope.hook = HookOfMode(client))
        => /\ client.session.closed
           /\ scope.raised = (scope.exc # PyNone)

C11_Witness ==
    /\ scope.state = "left"
    /\ scope.hook = "async with"
    /\ client._async
    /\ scope.exc = PyStr("JSONDecodeError")
    /\ scope.raised
    /\ client.session.closed

(***************************************************************************)
(* C12 as stated: after close() or async_close() returns, on a client of   *)
(* either transport mode, the client's session is closed.                  *)
(***************************************************************************)
C12_CloseClosesAnyMode ==
    last.op \in {"close", "async_close"} => client.session.closed

(***************************************************************************)
(* C12, amended: after close() returns on a sync client, and after         *)
(* async_close() returns on an async client, the client's session is       *)
(* closed; the call returns None and hands the session no request.         *)
(***************************************************************************)
C12_CloseClosesOwnMode ==
    (\/ last.op = "close" /\ ~client._async
     \/ last.op = "async_close" /\ client._async)
        => /\ client.session.closed
           /\ last.ret = PyNone
           /\ last.reqs = <<>>

C12_Witness ==
    /\ last.op = "close"
    /\ ~client._async
    /\ scope.state = "out"
    /\ client.session.closed

(***************************************************************************)
(* C13: every public method exists in a blocking and in a non-blocking     *)
(* form: the method a sync client just called has a counterpart of the     *)
(* same name with the async_ prefix, and the method an async client just   *)
(* called is the async_ form of a sync method.                             *)
(***************************************************************************)
C13_BothForms ==
    /\ last.op \in SyncMethods => AsyncOf(last.op) \in AsyncMethods
    /\ last.op \in AsyncMethods => \E m \in SyncMethods : AsyncOf(m) = last.op

(***************************************************************************)
(* C14: every endpoint method and pagination helper takes raw_response:    *)
(* when it is true the call returns the very response the session gave,    *)
(* undecoded (so also one that is not JSON); when it is false, or not      *)
(* given, the call returns the decoded body of that response, or raises    *)
(* the decoding error.  Every endpoint method defaults it to False; only   *)
(* _get_response and _get_async_response default it to True.               *)
(***************************************************************************)
\* the flag of the last call, False when the caller did not give it
RawFlagGiven ==
    IF "raw_response" \in DOMAIN last.kwargs THEN last.kwargs["raw_response"].bool ELSE FALSE

\* the last call was of an endpoint method or a pagination helper and got a response
GotResponse ==
    /\ last.op \in AllEndpointOps \cup AllNextPageOps
                    \cup {"get_next_page_by_url", "async_get_next_page_by_url"}
    /\ Len(last.resps) = 1

C14_RawOrDecoded ==
    /\ \A op \in AllEndpointOps : Defaults(op)["raw_response"] = PyBool(FALSE)
    /\ _get_response_defaults["raw_response"] = PyBool(TRUE)
    /\ _get_async_response_defaults["raw_response"] = PyBool(TRUE)
    /\ GotResponse =>
         IF RawFlagGiven
         THEN last.ret = last.resps[1]
         ELSE IF "json_text" \in DOMAIN last.resps[1].body
              THEN last.ret = PyDict(last.resps[1].body.json_text)
              ELSE last.ret = Raise("JSONDecodeError")

C14_Witness ==
    /\ last.op = "async_get_ticker_details"
    /\ RawFlagGiven
    /\ Len(last.resps) = 1
    /\ last.resps[1] = Response(500, NotJsonBody)
    /\ last.ret = last.resps[1]

(***************************************************************************)
(* C15: every request of a call, the follow-up requests of the pagination  *)
(* helpers included, carries the header Authorization: Bearer <api_key>    *)
(* with the key given at construction, and the client still holds the      *)
(* session made at construction, with that header.                         *)
(***************************************************************************)
C15_BearerOnEveryRequest ==
    /\ client.KEY \in ApiKeys
    /\ client.session.class =
         (IF client._async THEN "httpx.AsyncClient" ELSE "requests.Session")
    /\ client.session.headers = ("Authorization" :> ("Bearer " \o client.KEY))
    /\ \A i \in 1..Len(last.reqs) :
         /\ DOMAIN last.reqs[i].headers = {"Authorization"}
         /\ last.reqs[i].headers["Authorization"] = "Bearer " \o client.KEY

C15_Witness ==
    /\ last.op = "get_next_page_news"
    /\ Len(last.reqs) = 1
    /\ last.reqs[1].url = "https://api.polygon.io/v3/reference/tickers?cursor=abc"
    /\ last.reqs[1].headers["Authorization"] = "Bearer KEY"

(***************************************************************************)
(* C16: each deprecated stub, whatever arguments it is called with, prints *)
(* one notice, returns None, hands the session no request and leaves the   *)
(* client as it was made.                                                  *)
(***************************************************************************)
AllDeprecatedOps == DeprecatedOps(FALSE) \cup DeprecatedOps(TRUE)

C16_StubsOnlyNotify ==
    last.op \in AllDeprecatedOps
        => /\ Len(last.stdout) = 1
           /\ last.ret = PyNone
           /\ last.reqs = <<>>
           /\ client = __init__(client.KEY, client._async)

(***************************************************************************)
(* C17: on every endpoint with range filters (tickers, news, option        *)
(* contracts, financials vX) the query mapping spells the key of each      *)
(* range filter as the field name, a dot and the operator: <field>.lt,     *)
(* <field>.lte, <field>.gt, <field>.gte, and in no other way.              *)
(***************************************************************************)
\* the range-filterable fields of the remote endpoint op calls
RangeFields(op) ==
    CASE op \in {"get_tickers", "async_get_tickers"} -> {"ticker"}
      [] op \in {"get_option_contracts", "async_get_option_contracts"} -> {"expiration_date"}
      [] op \in {"get_ticker_news", "async_get_ticker_news"} -> {"ticker", "published_utc"}
      [] op \in {"get_stock_financials_vx", "async_get_stock_financials_vx"} ->
            {"filing_date", "period_of_report_date"}
      [] OTHER -> {}

RangeOperators == {"lt", "lte", "gt", "gte"}

C17_DottedRangeKeys ==
    EndpointCalled =>
        \A field \in RangeFields(last.op), operator \in RangeOperators :
            LET q == QueryOf(last.reqs[1].params)
            IN  /\ (field \o "_" \o operator) \notin DOMAIN q
                /\ (field \o "_" \o operator) \in DOMAIN last.kwargs
                        => (field \o "." \o operator) \in DOMAIN q

(***************************************************************************)
(* C18 as stated: every request is a GET whose target begins with the      *)
(* client's BASE, https://api.polygon.io, those of get_next_page_by_url    *)
(* and of the pagination helpers included.                                 *)
(***************************************************************************)
\* what follows the host in the URLs the sampled calls can name
BaseTails ==
    {"/v3/reference/tickers", "/v3/reference/tickers/types", "/v1/meta/symbols/AAPL/company",
     "/vX/reference/tickers/AAPL", "/vX/reference/options/contracts", "/v2/reference/news",
     "/v2/reference/dividends/AAPL", "/v2/reference/financials/AAPL",
     "/vX/reference/financials", "/v2/reference/splits/AAPL", "/v1/marketstatus/upcoming",
     "/v1/marketstatus/now", "/v1/meta/conditions/trades", "/vX/reference/conditions",
     "/v3/reference/exchanges", "/v2/reference/locales", "/v2/reference/markets",
     "/v3/reference/tickers?cursor=abc"}

\* url begins with base
BeginsWith(url, base) == \E tail \in BaseTails : url = base \o tail

AllByUrlOps == {"get_next_page_by_url", "async_get_next_page_by_url"}

C18_AlwaysBaseHost ==
    /\ client.BASE = "https://api.polygon.io"
    /\ \A i \in 1..Len(last.reqs) :
         /\ last.reqs[i].method = "GET"
         /\ BeginsWith(last.reqs[i].url, client.BASE)

(***************************************************************************)
(* C18, amended: every request is a GET; the target of an endpoint         *)
(* method's request begins with the client's BASE, https://api.polygon.io; *)
(* the target of a request of get_next_page_by_url or of a pagination      *)
(* helper is the URL the caller or the old response gave, whatever its     *)
(* host, so it begins with BASE exactly when that URL does.                *)
(***************************************************************************)
\* the URL a follow-up call was given: its argument, or the old response's next_url
GivenUrl ==
    IF last.op \in AllByUrlOps THEN last.old ELSE MappingOf(last.old)["next_url"]

C18_BaseHostUnlessFollowed ==
    /\ client.BASE = "https://api.polygon.io"
    /\ \A i \in 1..Len(last.reqs) :
         /\ last.reqs[i].method = "GET"
         /\ last.op \in AllEndpointOps => BeginsWith(last.reqs[i].url, client.BASE)
         /\ last.op \in AllNextPageOps \cup AllByUrlOps =>
                /\ PyStr(last.reqs[i].url) = GivenUrl
                /\ BeginsWith(last.reqs[i].url, client.BASE)
                     <=> BeginsWith(GivenUrl.str, client.BASE)

C18_Witness ==
    /\ last.op = "async_get_next_page_by_url"
    /\ Len(last.reqs) = 1
    /\ last.reqs[1].url = "https://api.example.com/v3/x?cursor=abc"
    /\ last.reqs[1].headers["Authorization"] = "Bearer KEY"
    /\ ~BeginsWith(last.reqs[1].url, client.BASE)

(***************************************************************************)
(* C19: each call of an endpoint method hands the session exactly one GET, *)
(* whether it is answered with a success, with an error status or not at   *)
(* all (session.request raises): nothing is asked a second time.           *)
(***************************************************************************)
C19_OneGetPerCall ==
    last.op \in AllEndpointOps
        => /\ Len(last.reqs) = 1
           /\ last.reqs[1].method = "GET"
           /\ Len(last.resps) <= 1
           /\ Len(last.resps) = 0 => last.ret = Raise("ConnectionError")

C19_Witness ==
    /\ last.op = "async_get_tickers"
    /\ Len(last.reqs) = 1
    /\ last.resps = <<>>
    /\ last.ret = Raise("ConnectionError")

(***************************************************************************)
(* C20: a pagination helper returns False exactly when the old response    *)
(* decodes to a mapping without a next_url key.  An old response that does *)
(* not decode raises the decoding error and sends nothing; a follow-up GET *)
(* that fails raises the transport's error; a follow-up answer that does   *)
(* not decode raises the decoding error when decoded output was asked for. *)
(***************************************************************************)
C20_OnlyMissingNextUrl ==
    NextPageCalled =>
        /\ last.ret = PyBool(FALSE)
              <=> (DecodesToMapping(last.old) /\ "next_url" \notin DOMAIN MappingOf(last.old))
        /\ ~DecodesToMapping(last.old)
              => last.ret = Raise("JSONDecodeError") /\ last.reqs = <<>>
        /\ (Len(last.reqs) = 1 /\ last.resps = <<>>)
              => last.ret = Raise("ConnectionError")
        /\ (Len(last.resps) = 1 /\ ~RawFlagGiven
                /\ "json_text" \notin DOMAIN last.resps[1].body)
              => last.ret = Raise("JSONDecodeError")

C20_Witness ==
    /\ last.op = "get_next_page_news"
    /\ DecodesToMapping(last.old)
    /\ "next_url" \in DOMAIN MappingOf(last.old)
    /\ Len(last.reqs) = 1
    /\ last.resps = <<>>
    /\ last.ret = Raise("ConnectionError")

(***************************************************************************)
(* C21: a caller that feeds the latest response to a pagination helper     *)
(* until it returns False receives the pages one at a time and in order:   *)
(* every helper call makes at most one GET, the pages received so far are  *)
(* 1, 2, ..., k with k - 1 follow-up GETs made, and when the helper        *)
(* returns False all N pages were received with exactly N - 1 follow-up    *)
(* GETs.                                                                   *)
(***************************************************************************)
C21_PagesInOrder ==
    pages.total > 0 =>
        /\ pages.got = [k \in 1..Len(pages.got) |-> k]
        /\ Len(pages.got) <= pages.total
        /\ pages.gets = Len(pages.got) - 1
        /\ NextPageCalled => Len(last.reqs) <= 1
        /\ pages.done => /\ Len(pages.got) = pages.total
                         /\ pages.gets = pages.total - 1
                         /\ last.ret = PyBool(FALSE)
                         /\ last.reqs = <<>>

C21_Witness ==
    /\ pages.total = 3
    /\ pages.done
    /\ pages.got = <<1, 2, 3>>
    /\ pages.gets = 2
    /\ last.ret = PyBool(FALSE)

(***************************************************************************)
(* C22: a pagination helper given a raw response that decodes to a mapping *)
(* does what it does given that mapping: the same request for the next     *)
(* page (or none), the same response taken, the same result (the next      *)
(* page, or False when the mapping has no next_url).                       *)
(***************************************************************************)
C22_RawAsDecoded ==
    (/\ NextPageCalled
     /\ ~isinstance_dict(last.old)
     /\ DecodesToMapping(last.old))
    => LET resp == IF last.resps = <<>> THEN OkResponse ELSE last.resps[1]
           decoded == InvokeNextPage(last.op, client, PyDict(MappingOf(last.old)),
                                     RawResponseOf(last.kwargs), resp)
       IN  /\ last.reqs = decoded.reqs
           /\ last.resps = decoded.resps
           /\ last.ret = decoded.ret
           /\ ("next_url" \in DOMAIN MappingOf(last.old)) = (Len(last.reqs) = 1)

C22_Witness ==
    /\ last.op = "get_next_page_option_contracts"
    /\ ~isinstance_dict(last.old)
    /\ DecodesToMapping(last.old)
    /\ "next_url" \in DOMAIN MappingOf(last.old)
    /\ Len(last.reqs) = 1
    /\ ~IsRaise(last.ret)

(***************************************************************************)
(* C24: when the response a call receives has a body that is not JSON, the *)
(* call raises the decoding error if raw_response is false and returns     *)
(* that response as it is, raising nothing, if raw_response is true.       *)
(***************************************************************************)
C24_DecodeErrorOnlyWhenDecoding ==
    (/\ GotResponse
     /\ ~IsRaise(last.resps[1])
     /\ "json_text" \notin DOMAIN last.resps[1].body)
    => IF RawFlagGiven
       THEN last.ret = last.resps[1] /\ ~IsRaise(last.ret)
       ELSE last.ret = Raise("JSONDecodeError")

C24_Witness ==
    /\ last.op = "get_tickers"
    /\ ~RawFlagGiven
    /\ Len(last.resps) = 1
    /\ last.resps[1] = Response(200, NotJsonBody)
    /\ last.ret = Raise("JSONDecodeError")

(***************************************************************************)
(* C25: an endpoint call answered with a 4xx / 5xx status does what it     *)
(* does for the same body with status 200: it raises nothing on account of *)
(* the status and returns the response itself when raw_response is true    *)
(* and the decoded body (or the decoding error) when it is false.          *)
(***************************************************************************)
C25_StatusNotInspected ==
    (/\ last.op \in AllEndpointOps
     /\ Len(last.resps) = 1
     /\ ~IsRaise(last.resps[1])
     /\ last.resps[1].status_code >= 400)
    => LET body == last.resps[1].body
           ok == Invoke(last.op, client, Bind(last.op, last.kwargs), Response(200, body))
       IN  /\ last.reqs = ok.reqs
           /\ IF RawFlagGiven
              THEN last.ret = last.resps[1] /\ ok.ret = Response(200, body)
              ELSE last.ret = ok.ret /\ last.ret = json(Response(200, body))

C25_Witness ==
    /\ last.op = "get_market_status"
    /\ ~RawFlagGiven
    /\ Len(last.resps) = 1
    /\ last.resps[1] = Response(404, JsonBody(ErrorPage))
    /\ last.ret = PyDict(ErrorPage)

(***************************************************************************)
(* C26: a string given for a date-bearing parameter, of the form           *)
(* YYYY-MM-DD or of any other, is in the query mapping of the request,     *)
(* unchanged, under that parameter's key.                                  *)
(***************************************************************************)
C26_StringDatesUnchanged ==
    EndpointCalled =>
        \A p \in DOMAIN last.kwargs \cap DateParams :
            ("str" \in DOMAIN last.kwargs[p])
                => /\ ParamKey(last.op, p) \in DOMAIN QueryOf(last.reqs[1].params)
                   /\ QueryOf(last.reqs[1].params)[ParamKey(last.op, p)] = last.kwargs[p]

\* the endpoints that normalise their date parameters
NormalisingOps ==
    {"get_tickers", "get_ticker_details_vx", "get_option_contracts", "get_ticker_news",
     "async_get_tickers", "async_get_ticker_details_vx", "async_get_option_contracts",
     "async_get_ticker_news"}

\* times of day, as hour and minute
TimesOfDay == {<<0, 0>>, <<9, 30>>}

(***************************************************************************)
(* C29: for every normalised date parameter, a datetime argument goes out  *)
(* under the parameter's key as the 'YYYY-MM-DD' string of its day, the    *)
(* value the date of that day goes out as, and a datetime at any other     *)
(* time of the same day makes the same request.                            *)
(***************************************************************************)
C29_TimeOfDayDiscarded ==
    (EndpointCalled /\ last.op \in NormalisingOps) =>
        \A p \in DOMAIN last.kwargs \cap DateParams :
            isinstance_datetime(last.kwargs[p])
                => LET v == last.kwargs[p]
                       k == ParamKey(last.op, p)
                       sent == QueryOf(last.reqs[1].params)
                       ofDate == QueryOf(RequestOf(last.op,
                                     [last.kwargs EXCEPT ![p] = PyDate(v.year, v.month, v.day)]).params)
                   IN  /\ k \in DOMAIN sent
                       /\ sent[k] = PyStr(IsoString(v))
                       /\ k \in DOMAIN ofDate
                       /\ ofDate[k] = sent[k]
                       /\ \A t \in TimesOfDay :
                             RequestOf(last.op,
                                 [last.kwargs EXCEPT ![p] =
                                     PyDateTime(v.year, v.month, v.day, t[1], t[2])]).params
                               = last.reqs[1].params

\* the financials vX endpoints
FinancialsVxOps == {"get_stock_financials_vx", "async_get_stock_financials_vx"}

(***************************************************************************)
(* C30: the financials vX endpoints always put include_sources in the      *)
(* query mapping, as the string 'true' when the argument is truthy and as  *)
(* 'false' otherwise; called with no argument they send exactly            *)
(* include_sources='false', order='asc', limit=50, sort='filing_date' as   *)
(* the set values.                                                         *)
(***************************************************************************)
C30_IncludeSourcesAlwaysSent ==
    (EndpointCalled /\ last.op \in FinancialsVxOps) =>
        LET sent == QueryOf(last.reqs[1].params)
            given == IF "include_sources" \in DOMAIN last.kwargs
                     THEN truthy(last.kwargs["include_sources"])
                     ELSE FALSE
        IN  /\ "include_sources" \in DOMAIN sent
            /\ sent["include_sources"] = IF given THEN PyStr("true") ELSE PyStr("false")
            /\ last.kwargs = NoKwargs
                 => sent = ("include_sources" :> PyStr("false") @@ "order" :> PyStr("asc")
                             @@ "limit" :> PyInt(50) @@ "sort" :> PyStr("filing_date"))

C30_Witness ==
    /\ EndpointCalled
    /\ last.op = "get_stock_financials_vx"
    /\ last.kwargs = NoKwargs
    /\ QueryOf(last.reqs[1].params)["include_sources"] = PyStr("false")

\* the client's configuration: the key, the base URL, the transport mode, the
\* session object it holds and that session's headers
Configuration(c) ==
    [KEY |-> c.KEY, BASE |-> c.BASE, _async |-> c._async,
     session |-> [class |-> c.session.class, made_by |-> c.session.made_by,
                  headers |-> c.session.headers]]

(***************************************************************************)
(* C23: no step of the client's life (endpoint method, pagination helper,  *)
(* deprecated stub, scope hook, close or async_close) changes KEY, BASE,   *)
(* the transport-mode flag, the session object the client holds or the     *)
(* session's Authorization header.                                         *)
(***************************************************************************)
C23_ConfigurationImmutable ==
    [][Configuration(client') = Configuration(client)]_vars

C23_Witness ==
    /\ last.op = "async_close"
    /\ client._async
    /\ client.session.closed
    /\ scope.state = "left"
    /\ Configuration(client) = Configuration(__init__(client.KEY, TRUE))

(***************************************************************************)
(* C27: __enter__ returns the client for a sync client and None for an     *)
(* async one, __aenter__ the client for an async client and None for a     *)
(* sync one; __exit__ and close() close the session of a sync client and   *)
(* leave an async client's session as it was, __aexit__ and async_close()  *)
(* close the session of an async client and leave a sync client's session  *)
(* as it was.                                                              *)
(***************************************************************************)
C27_HooksActOnOwnMode ==
    /\ last.op = "__enter__" => last.ret = IF client._async THEN PyNone ELSE PySelf
    /\ last.op = "__aenter__" => last.ret = IF client._async THEN PySelf ELSE PyNone
    /\ last.op \in {"__enter__", "__aenter__"} => client.session.closed = last.closed
    /\ last.op \in {"__exit__", "close"}
         => /\ last.ret = PyNone
            /\ client.session.closed = IF client._async THEN last.closed ELSE TRUE
    /\ last.op \in {"__aexit__", "async_close"}
         => /\ last.ret = PyNone
            /\ client.session.closed = IF client._async THEN TRUE ELSE last.closed

C27_Witness ==
    /\ last.op = "__exit__"
    /\ client._async
    /\ scope.hook = "with"
    /\ scope.as = PyNone
    /\ ~last.closed
    /\ ~client.session.closed

\* the call on record, made again on client c with the server answering resp
Again(c, resp) ==
    CASE last.op \in AllEndpointOps -> Invoke(last.op, c, Bind(last.op, last.kwargs), resp)
      [] last.op \in AllNextPageOps ->
            InvokeNextPage(last.op, c, last.old, RawResponseOf(last.kwargs), resp)
      [] last.op \in AllByUrlOps ->
            InvokeByUrl(last.op, c, last.old, RawResponseOf(last.kwargs), resp)

(***************************************************************************)
(* C28: close() and async_close() return None without error also when the  *)
(* session was closed already, and an endpoint or pagination call made     *)
(* after the session was closed is not turned down by the client: it hands *)
(* the same session the requests it hands an open one; on a sync client it *)
(* returns what it returns when open, on an async client it raises the     *)
(* RuntimeError of the closed session.                                     *)
(***************************************************************************)
C28_NoClosedState ==
    /\ last.op \in {"close", "async_close"} => last.ret = PyNone /\ (last.closed => client.session.closed)
    /\ (last.closed /\ last.op \in AllEndpointOps \cup AllNextPageOps \cup AllByUrlOps)
         => LET open == [client EXCEPT !.session.closed = FALSE]
            IN  /\ last.reqs = Again(open, OkResponse).reqs
                /\ \A i \in 1..Len(last.reqs) : last.reqs[i].headers = client.session.headers
                /\ (~client._async /\ last.reqs # <<>>)
                     => /\ Len(last.resps) = 1
                        /\ last.ret = Again(open, last.resps[1]).ret
                /\ (client._async /\ last.reqs # <<>>)
                     => last.ret = Raise("RuntimeError")

C28_Witness ==
    /\ last.closed
    /\ last.op = "get_next_page_tickers"
    /\ ~client._async
    /\ scope.state = "left"
    /\ Len(last.reqs) = 1
    /\ ~IsRaise(last.ret)

=============================================================================
